---- MODULE Spec2Model ----
(***************************************************************************)
(* Model of the npm-malwatch preload (deno/preload_cjs.ts, PRELOAD_CJS):   *)
(* the wrappers, the attribution, the event formatter, the sink and the    *)
(* tamper detector that run inside an observed Node.js process.            *)
(*                                                                         *)
(* JavaScript values are modelled as records with a tag field t:           *)
(*   [t |-> "str", id, len, ell]  a string: the first len characters of    *)
(*        the text named id; when ell is TRUE the last of these len        *)
(*        characters is the ellipsis that truncateString appended          *)
(*   [t |-> "num"], [t |-> "null"], [t |-> "undef"], [t |-> "fn"]          *)
(*   [t |-> "arr", items]         an array                                 *)
(*   [t |-> "obj", keys, vals]    an object, own keys in Object.keys order *)
(*   [t |-> "getter_throws"]      as a property value only: an accessor    *)
(*        whose read raises an exception                                   *)
(*   [t |-> "throw"]              the outcome "an exception was raised"    *)
(* Object keys are sequences of one-character strings, because the code    *)
(* matches them against a case-insensitive pattern.                        *)
(***************************************************************************)
EXTENDS Integers, Sequences, FiniteSets, TLC

\* ------------------------------------------------------------------ bounds

\* Longest stack (in lines) drawn for the attribution inputs.
MaxStackLines == 2
\* Wrapper invocations and replacements of functions by the observed program
\* in one run of the process.
MaxCalls == 1
MaxTampers == 1

\* ------------------------------------------------------- JavaScript values

Str(id, n) == [t |-> "str", id |-> id, len |-> n, ell |-> FALSE]
Num == [t |-> "num"]
Null == [t |-> "null"]
Undef == [t |-> "undef"]
Fn == [t |-> "fn"]
Arr(items) == [t |-> "arr", items |-> items]
Obj(keys, vals) == [t |-> "obj", keys |-> keys, vals |-> vals]
GetterThrows == [t |-> "getter_throws"]
Throw == [t |-> "throw"]

Max(a, b) == IF a >= b THEN a ELSE b
Min(a, b) == IF a <= b THEN a ELSE b

\* Array.prototype.slice(0, n)
Take(s, n) == SubSeq(s, 1, Min(n, Len(s)))

\* ------------------------------------------------------------ truncateString

truncateString_KeepsMaxLen(value, maxLen) ==
  IF value.len <= maxLen THEN value
  ELSE [value EXCEPT !.len = Max(0, maxLen) + 1, !.ell = TRUE]

truncateString(value, maxLen) ==
  IF value.len <= maxLen THEN value
  ELSE [value EXCEPT !.len = Max(0, maxLen - 1) + 1, !.ell = TRUE]

\* ---------------------------------------------------------------- shortenStack
\* Here a stack text is [defined, lens]: the lengths of its lines, a length
\* of 0 being an empty line. The result is [t |-> "undef"] or
\* [t |-> "stack", lines, len, ell]: the number of lines kept and the length
\* of the text.

STACK_LINES == 12
STACK_CHARS == 2000

RECURSIVE SumSeq(_)
SumSeq(ns) == IF ns = <<>> THEN 0 ELSE Head(ns) + SumSeq(Tail(ns))

\* Array.prototype.filter(Boolean) on the lines: the non-empty ones
RECURSIVE NonEmptyLens(_)
NonEmptyLens(lens) ==
  IF lens = <<>> THEN <<>>
  ELSE IF Head(lens) = 0 THEN NonEmptyLens(Tail(lens))
  ELSE <<Head(lens)>> \o NonEmptyLens(Tail(lens))

\* lines.join("\n").length
JoinedLen(lens) == SumSeq(lens) + Max(0, Len(lens) - 1)

shortenStack(stack) ==
  IF ~stack.defined \/ JoinedLen(stack.lens) = 0 THEN Undef
  ELSE LET lines == Take(NonEmptyLens(stack.lens), STACK_LINES)
           text == truncateString([t |-> "str", id |-> "stack",
                                   len |-> JoinedLen(lines), ell |-> FALSE],
                                  STACK_CHARS)
           \* the lines that begin inside the kept text
           kept == {k \in 1..Len(lines) :
                      JoinedLen(SubSeq(lines, 1, k - 1)) + (IF k > 1 THEN 1 ELSE 0)
                        < text.len}
       IN [t |-> "stack", lines |-> Cardinality(kept), len |-> text.len,
           ell |-> text.ell]

\* ---------------------------------------------------------- looksSensitiveKey

ToLowerChar(c) ==
  CASE c = "A" -> "a" [] c = "B" -> "b" [] c = "C" -> "c" [] c = "D" -> "d"
    [] c = "E" -> "e" [] c = "F" -> "f" [] c = "G" -> "g" [] c = "H" -> "h"
    [] c = "I" -> "i" [] c = "J" -> "j" [] c = "K" -> "k" [] c = "L" -> "l"
    [] c = "M" -> "m" [] c = "N" -> "n" [] c = "O" -> "o" [] c = "P" -> "p"
    [] c = "Q" -> "q" [] c = "R" -> "r" [] c = "S" -> "s" [] c = "T" -> "t"
    [] c = "U" -> "u" [] c = "V" -> "v" [] c = "W" -> "w" [] c = "X" -> "x"
    [] c = "Y" -> "y" [] c = "Z" -> "z" [] OTHER -> c

ToLower(s) == [i \in 1..Len(s) |-> ToLowerChar(s[i])]

\* s contains w as a contiguous substring
Contains(s, w) ==
  \E i \in 1..(Len(s) - Len(w) + 1) : SubSeq(s, i, i + Len(w) - 1) = w

SensitiveWords ==
  { <<"p","a","s","s">>, <<"t","o","k","e","n">>, <<"s","e","c","r","e","t">>,
    <<"a","u","t","h">>, <<"c","o","o","k","i","e">>,
    <<"s","e","s","s","i","o","n">> }

looksSensitiveKey_CaseSensitive(key) ==
  \E w \in SensitiveWords : Contains(key, w)

looksSensitiveKey(key) ==
  \E w \in SensitiveWords : Contains(ToLower(key), w)

\* ----------------------------------------------------------------- redactObject

Redacted == Str("<redacted>", 10)
Truncated == Str("<truncated>", 11)
Unserializable == Str("<unserializable>", 16)

RECURSIVE redactObject(_, _)
RECURSIVE RedactItems(_, _)
RECURSIVE RedactProps(_, _, _)

\* value.slice(0, 20).map((v) => redactObject(v, maxDepth - 1)); the first
\* element whose redaction raises ends the map
RedactItems(items, maxDepth) ==
  IF items = <<>> THEN [threw |-> FALSE, seq |-> <<>>]
  ELSE LET h == redactObject(Head(items), maxDepth)
       IN IF h.t = "throw" THEN [threw |-> TRUE, seq |-> <<>>]
          ELSE LET r == RedactItems(Tail(items), maxDepth)
               IN [threw |-> r.threw, seq |-> <<h>> \o r.seq]

\* the loop over keys: out[key] = looksSensitiveKey(key) ? "<redacted>"
\*                                 : redactObject(obj[key], maxDepth - 1)
\* obj[key] is read only for a key that is not sensitive
RedactProps(keys, vals, maxDepth) ==
  IF keys = <<>> THEN [threw |-> FALSE, seq |-> <<>>]
  ELSE LET h == IF looksSensitiveKey(Head(keys)) THEN Redacted
                ELSE IF Head(vals).t = "getter_throws" THEN Throw
                ELSE redactObject(Head(vals), maxDepth)
       IN IF h.t = "throw" THEN [threw |-> TRUE, seq |-> <<>>]
          ELSE LET r == RedactProps(Tail(keys), Tail(vals), maxDepth)
               IN [threw |-> r.threw, seq |-> <<h>> \o r.seq]

redactObject(value, maxDepth) ==
  IF maxDepth <= 0 THEN Truncated
  ELSE IF value.t = "null" THEN Null
  ELSE IF value.t = "undef" THEN Undef
  ELSE IF value.t = "str" THEN truncateString(value, 500)
  ELSE IF value.t = "num" THEN value
  ELSE IF value.t = "arr" THEN
    LET r == RedactItems(Take(value.items, 20), maxDepth - 1)
    IN IF r.threw THEN Throw ELSE Arr(r.seq)
  ELSE IF value.t = "obj" THEN
    LET keys == Take(value.keys, 40)
        r == RedactProps(keys, Take(value.vals, 40), maxDepth - 1)
    IN IF r.threw THEN Throw ELSE Obj(keys, r.seq)
  ELSE Unserializable

\* baseArgs(args) = { argv: redactObject(args) }, maxDepth defaulting to 3
baseArgs(args) == redactObject(args, 3)

\* ------------------------------------------------------------------ attribution
\* A file path is a sequence of tokens: the separators "/" and "\\", the
\* words ".", "@" and "node_modules", and names. A package identity is a
\* sequence of tokens as well: <<"lodash">>, <<"@", "scope", "/", "pkg">>,
\* and the sentinels below.

UNKNOWN == <<"<unknown>">>
MALWATCH == <<"<malwatch>">>
PM_NPM == <<"<pm:", "npm>">>
PM_PNPM == <<"<pm:", "pnpm>">>
NoPkg == <<>>

\* p.replaceAll("\\", "/")
toPosixPath(p) == [i \in 1..Len(p) |-> IF p[i] = "\\" THEN "/" ELSE p[i]]

\* A stack line is [form, path]: form "paren" is "at f (PATH:L:C)", form
\* "bare" is "at PATH:L:C", form "other" matches neither pattern. The
\* result is the captured path when it is not empty, otherwise null (NoPkg).
extractFilePathFromStackLine(line) ==
  IF line.form = "paren" /\ line.path # <<>> THEN line.path
  ELSE IF line.form = "bare" /\ line.path # <<>> THEN line.path
  ELSE <<>>

NodeModulesSep == <<"/", "node_modules", "/">>

\* p.lastIndexOf("/node_modules/"), 0 when there is none
LastIndexOfNodeModules(p) ==
  LET hits == {i \in 1..(Len(p) - 2) : SubSeq(p, i, i + 2) = NodeModulesSep}
  IN IF hits = {} THEN 0 ELSE CHOOSE i \in hits : \A j \in hits : j <= i

\* rest.split("/").filter(Boolean): the non-empty runs between separators
RECURSIVE SplitParts(_, _)
SplitParts(rest, cur) ==
  IF rest = <<>> THEN (IF cur = <<>> THEN <<>> ELSE <<cur>>)
  ELSE IF Head(rest) = "/"
       THEN (IF cur = <<>> THEN <<>> ELSE <<cur>>) \o SplitParts(Tail(rest), <<>>)
       ELSE SplitParts(Tail(rest), Append(cur, Head(rest)))

packageNameFromFilePath_FirstIndex(filePath) ==
  LET p == toPosixPath(filePath)
      hits == {i \in 1..(Len(p) - 2) : SubSeq(p, i, i + 2) = NodeModulesSep}
      idx == IF hits = {} THEN 0 ELSE CHOOSE i \in hits : \A j \in hits : i <= j
      rest == SubSeq(p, idx + 3, Len(p))
      parts == SplitParts(rest, <<>>)
  IN IF idx = 0 THEN NoPkg
     ELSE IF rest = <<>> \/ rest[1] = "." THEN NoPkg
     ELSE IF parts = <<>> THEN NoPkg
     ELSE IF parts[1][1] = "@"
          THEN (IF Len(parts) < 2 THEN NoPkg ELSE parts[1] \o <<"/">> \o parts[2])
          ELSE parts[1]

packageNameFromFilePath(filePath) ==
  LET p == toPosixPath(filePath)
      idx == LastIndexOfNodeModules(p)
      rest == SubSeq(p, idx + 3, Len(p))
      parts == SplitParts(rest, <<>>)
  IN IF idx = 0 THEN NoPkg
     ELSE IF rest = <<>> \/ rest[1] = "." THEN NoPkg
     ELSE IF parts = <<>> THEN NoPkg
     ELSE IF parts[1][1] = "@"
          THEN (IF Len(parts) < 2 THEN NoPkg ELSE parts[1] \o <<"/">> \o parts[2])
          ELSE parts[1]

StartsWith(s, prefix) ==
  Len(s) >= Len(prefix) /\ SubSeq(s, 1, Len(prefix)) = prefix

isPmPackageName(pkgName) ==
  IF pkgName = <<"npm">> THEN "npm"
  ELSE IF pkgName = <<"pnpm">> THEN "pnpm"
  ELSE IF StartsWith(pkgName, <<"@", "npmcli", "/">>) THEN "npm"
  ELSE IF StartsWith(pkgName, <<"@", "pnpm", "/">>) THEN "pnpm"
  ELSE "none"

classifyPackageDisplayName(pkgName) ==
  LET pm == isPmPackageName(pkgName)
  IN IF pm = "npm" THEN PM_NPM
     ELSE IF pm = "pnpm" THEN PM_PNPM
     ELSE pkgName

\* A stack is [defined, lines]; (stack || "").split("\n") of an undefined
\* stack is one line that matches nothing.
RECURSIVE InferFromLines(_)
InferFromLines(lines) ==
  IF lines = <<>> THEN UNKNOWN
  ELSE LET fp == extractFilePathFromStackLine(Head(lines))
           pkgName == IF fp = <<>> THEN NoPkg ELSE packageNameFromFilePath(fp)
       IN IF fp = <<>> THEN InferFromLines(Tail(lines))
          ELSE IF pkgName = NoPkg THEN InferFromLines(Tail(lines))
          ELSE IF pkgName = <<"npm-malwatch">> THEN InferFromLines(Tail(lines))
          ELSE classifyPackageDisplayName(pkgName)

inferPackageFromStack(stack) ==
  InferFromLines(IF stack.defined THEN stack.lines
                 ELSE << [form |-> "other", path |-> <<>>] >>)

NoStore == [t |-> "undef"]
StoreOf(pkg) == [t |-> "str", pkg |-> pkg]
NoStack == [defined |-> FALSE, lines |-> <<>>]
StackOf(lines) == [defined |-> TRUE, lines |-> lines]

\* { pkg, stack }: stack is null (hasStack FALSE) when the scope decided
currentPkgAndMaybeStack_StackFirst(store, stack) ==
  IF inferPackageFromStack(stack) # UNKNOWN \/ store.t # "str"
  THEN [pkg |-> inferPackageFromStack(stack), hasStack |-> TRUE, stack |-> stack]
  ELSE [pkg |-> store.pkg, hasStack |-> FALSE, stack |-> NoStack]

currentPkgAndMaybeStack(store, stack) ==
  IF store.t = "str"
  THEN [pkg |-> store.pkg, hasStack |-> FALSE, stack |-> NoStack]
  ELSE [pkg |-> inferPackageFromStack(stack), hasStack |-> TRUE, stack |-> stack]

\* ------------------------------------------------------------------------ sink
\* The sink state is [logFd, log, used, failed]: the descriptor ("null" or
\* "fd"), the lines appended to the log file by this process, the function
\* values the sink has called, and whether a write was ever dropped.
\* The environment of one handler run is [openOk, writeOk]: whether openSync
\* and writeSync succeed during it.

VARIABLES cfg, phase, sink, fns, realFs, installed, immediate, listeners,
          pending, last, lastDetect, boot, nCalls, nTampers,
          pureIn, pureOut

vars == << cfg, phase, sink, fns, realFs, installed, immediate, listeners,
           pending, last, lastDetect, boot, nCalls, nTampers,
           pureIn, pureOut >>

Orig == "orig"
Wrapped == "wrapped"
Foreign == "foreign"

\* the file functions the sink uses, read from the copy realFs = { ...fs }
SinkFn_Live(name, table, snapshot) == table[name]

SinkFn(name, table, snapshot) == snapshot[name]

ensureLogFd(S, E, table, snapshot) ==
  IF S.logFd # "null" THEN [S |-> S, threw |-> FALSE]
  ELSE LET mk == SinkFn("fs.mkdirSync", table, snapshot)
           op == SinkFn("fs.openSync", table, snapshot)
           S1 == [S EXCEPT !.used = @ \cup {mk, op}]
       IN IF E.openOk /\ op = Orig
          THEN [S |-> [S1 EXCEPT !.logFd = "fd"], threw |-> FALSE]
          ELSE [S |-> S1, threw |-> TRUE]

writeLine(S, E, table, snapshot, line) ==
  LET r == ensureLogFd(S, E, table, snapshot)
      wr == SinkFn("fs.writeSync", table, snapshot)
      S1 == [r.S EXCEPT !.used = @ \cup {wr}]
  IN IF r.threw THEN r
     ELSE IF E.writeOk /\ wr = Orig
          THEN [S |-> [S1 EXCEPT !.log = Append(@, line)], threw |-> FALSE]
          ELSE [S |-> [S1 EXCEPT !.failed = TRUE], threw |-> FALSE]

shouldEmitForPackage(c, pkg) ==
  IF c.includePm THEN TRUE
  ELSE IF pkg[1] = "<pm:" THEN FALSE
  ELSE TRUE

shouldEmitEvent_DropUnknown(c, pkg) ==
  IF c.filter # "package-only" THEN TRUE
  ELSE IF pkg = UNKNOWN THEN FALSE
  ELSE IF pkg = MALWATCH THEN FALSE
  ELSE IF ~shouldEmitForPackage(c, pkg) THEN FALSE
  ELSE TRUE

shouldEmitEvent(c, pkg) ==
  IF c.filter # "package-only" THEN TRUE
  ELSE IF pkg = MALWATCH THEN FALSE
  ELSE IF ~shouldEmitForPackage(c, pkg) THEN FALSE
  ELSE TRUE

\* the line is the record itself; ts, session, pid and ppid are left out
logEvent(S, E, c, table, snapshot, partial) ==
  IF ~shouldEmitEvent(c, partial.pkg) THEN [S |-> S, threw |-> FALSE]
  ELSE writeLine(S, E, table, snapshot, partial)

\* -------------------------------------------------------------------- makeArgs
\* An argument summary is [t |-> "args", fields |-> <<name, value>> pairs in
\* property order]; Throw when building it raised.

K_host == <<"h","o","s","t">>
K_hostname == <<"h","o","s","t","n","a","m","e">>
K_method == <<"m","e","t","h","o","d">>
K_port == <<"p","o","r","t">>

\* obj[key]: Undef when absent, Throw when the property is a raising accessor
Prop(obj, key) ==
  LET hits == {i \in 1..Len(obj.keys) : obj.keys[i] = key}
  IN IF hits = {} THEN Undef
     ELSE LET v == obj.vals[CHOOSE i \in hits : TRUE]
          IN IF v.t = "getter_throws" THEN Throw ELSE v

Arg(args, i) == IF Len(args.items) >= i THEN args.items[i] ELSE Undef

\* typeof v === "string" ? truncateString(v, n) : void 0
StrOrUndef(v, n) == IF v.t = "str" THEN truncateString(v, n) ELSE Undef

Summary(fields) == [t |-> "args", fields |-> fields]

makeArgs(kind, args) ==
  LET a0 == Arg(args, 1)
      argv == baseArgs(args)
  IN IF kind = "path" THEN
       IF argv.t = "throw" THEN Throw
       ELSE Summary(<< <<"path", StrOrUndef(a0, 500)>>, <<"argv", argv>> >>)
     ELSE IF kind = "spawn" THEN
       \* { file, argv, ...baseArgs(args) }: the spread overwrites argv
       IF argv.t = "throw" THEN Throw
       ELSE Summary(<< <<"file", StrOrUndef(a0, 300)>>, <<"argv", argv>> >>)
     ELSE IF kind = "host" THEN
       IF argv.t = "throw" THEN Throw
       ELSE Summary(<< <<"host", StrOrUndef(a0, 300)>>, <<"argv", argv>> >>)
     ELSE IF kind = "command" THEN
       IF argv.t = "throw" THEN Throw
       ELSE Summary(<< <<"command", StrOrUndef(a0, 400)>>, <<"argv", argv>> >>)
     ELSE IF kind = "connect" THEN
       LET isObj == a0.t = "obj"
           host == IF isObj THEN Prop(a0, K_host) ELSE Undef
           port == IF isObj THEN Prop(a0, K_port) ELSE Undef
       IN IF host.t = "throw" \/ port.t = "throw" \/ argv.t = "throw" THEN Throw
          ELSE Summary(<< <<"host", StrOrUndef(host, 300)>>,
                          <<"port", IF port.t = "num" THEN port ELSE Undef>>,
                          <<"argv", argv>> >>)
     ELSE \* kind = "http"
       LET isObj == a0.t = "obj"
           host == IF isObj THEN Prop(a0, K_host) ELSE Undef
           hostname == IF isObj THEN Prop(a0, K_hostname) ELSE Undef
           method == IF isObj THEN Prop(a0, K_method) ELSE Undef
       IN IF host.t = "throw" \/ hostname.t = "throw" \/ method.t = "throw"
             \/ argv.t = "throw"
          THEN Throw
          ELSE Summary(<< <<"host", StrOrUndef(host, 300)>>,
                          <<"hostname", StrOrUndef(hostname, 300)>>,
                          <<"href", StrOrUndef(a0, 500)>>,
                          <<"method", StrOrUndef(method, 20)>>,
                          <<"argv", argv>> >>)

\* -------------------------------------------------------------------- wrappers
\* The wrappers the model can call: op -> [kind, category, args].
WrapperOps == {"fs.writeFileSync", "child_process.spawn", "http.request",
               "dns.lookup", "fs.promises.readFile"}

WrapperOf(op) ==
  CASE op = "fs.writeFileSync" -> [kind |-> "sync", category |-> "fs", args |-> "path"]
    [] op = "child_process.spawn" -> [kind |-> "sync", category |-> "proc", args |-> "spawn"]
    [] op = "http.request" -> [kind |-> "sync", category |-> "net", args |-> "http"]
    [] op = "dns.lookup" -> [kind |-> "async", category |-> "dns", args |-> "host"]
    [] op = "fs.promises.readFile" -> [kind |-> "async", category |-> "fs", args |-> "path"]

NoErr == [name |-> "", message |-> Undef]

\* { name: safeToString(e?.name), message: truncateString(safeToString(e?.message), 500) }
ErrOf(e) == [name |-> e.name, message |-> truncateString(e.message, 500)]

Rec(pkg, op, category, args, result, err, stack) ==
  [pkg |-> pkg, op |-> op, category |-> category, args |-> args,
   result |-> result, error |-> err, stack |-> stack]

\* exceptions: what the original raises, and what the instrumentation raises
E_orig == [name |-> "Error", message |-> Str("EACCES", 600)]
E_args == [name |-> "Error", message |-> Str("getter", 6)]
E_sink == [name |-> "Error", message |-> Str("ENOENT", 6)]

Returned(v) == [kind |-> "return", val |-> v, err |-> NoErr]
Threw(e) == [kind |-> "throw", val |-> "", err |-> e]
Promise == [kind |-> "promise", val |-> "", err |-> NoErr]

\* the ok record and the error record of one invocation
OkRec(a, op, w, m) ==
  Rec(a.pkg, op, w.category, m, "ok", NoErr,
      IF a.hasStack THEN "entry" ELSE "none")

ErrRec(a, op, w, m, e) ==
  Rec(a.pkg, op, w.category, m, "error", ErrOf(e),
      IF a.hasStack THEN "entry" ELSE "fresh")

\* what the original was applied to: original.apply(this, args)
Applied(ctx, args) == [called |-> TRUE, this |-> ctx.this, args |-> args]
NotApplied == [called |-> FALSE, this |-> "", args |-> Undef]

\* catch (e) { logEvent(error record); throw e; }
CatchAndRethrow(S, E, c, table, snapshot, a, op, w, m, e, steps, ap) ==
  LET l == logEvent(S, E, c, table, snapshot, ErrRec(a, op, w, m, e))
  IN [S |-> l.S, steps |-> Append(steps, "logEvent"), applied |-> ap,
      caller |-> IF l.threw THEN Threw(E_sink) ELSE Threw(e)]

\* try { result = original.apply(this, args); logEvent(ok record); return result }
\* catch (e) { ... } for an original that returned or raised at once
CallAndLog(S, E, c, table, snapshot, a, op, w, m, o, ap) ==
  LET steps == <<"attr", "makeArgs", "orig">>
  IN IF o.kind = "throw"
     THEN CatchAndRethrow(S, E, c, table, snapshot, a, op, w, m, o.err, steps, ap)
     ELSE LET l == logEvent(S, E, c, table, snapshot, OkRec(a, op, w, m))
          IN IF l.threw
             THEN CatchAndRethrow(l.S, E, c, table, snapshot, a, op, w, m,
                                  E_sink, Append(steps, "logEvent"), ap)
             ELSE [S |-> l.S, steps |-> Append(steps, "logEvent"),
                   applied |-> ap, caller |-> o]

\* One invocation of a wrapper built by wrapSync. ctx is [store, stack, this]
\* at entry, o the outcome of the original. The result is the sink after
\* it, the steps the wrapper took in order, what the original was applied
\* to and what the caller observes.
wrapSync(S, E, c, table, snapshot, op, ctx, args, o) ==
  LET w == WrapperOf(op)
      a == currentPkgAndMaybeStack(ctx.store, ctx.stack)
      m == makeArgs(w.args, args)
  IN IF m.t = "throw"
     THEN [S |-> S, steps |-> <<"attr", "makeArgs">>, applied |-> NotApplied,
           caller |-> Threw(E_args)]
     ELSE CallAndLog(S, E, c, table, snapshot, a, op, w, m, o, Applied(ctx, args))

\* a wrapper that wrote its ok record as soon as the original returned,
\* awaitable or not
wrapAsync_LogsAtReturn(S, E, c, table, snapshot, op, ctx, args, o) ==
  LET w == WrapperOf(op)
      a == currentPkgAndMaybeStack(ctx.store, ctx.stack)
      m == makeArgs(w.args, args)
  IN CallAndLog(S, E, c, table, snapshot, a, op, w, m, o, Applied(ctx, args))
     @@ [evBase |-> [a |-> a, m |-> m]]

\* One invocation of a wrapper built by wrapAsync, up to its return. When
\* the original returned an awaitable nothing is logged yet: the caller
\* gets the derived promise and evBase = [a, m] stays with the continuations.
wrapAsync(S, E, c, table, snapshot, op, ctx, args, o) ==
  LET w == WrapperOf(op)
      a == currentPkgAndMaybeStack(ctx.store, ctx.stack)
      m == makeArgs(w.args, args)
  IN IF m.t = "throw"
     THEN [S |-> S, steps |-> <<"attr", "makeArgs">>, applied |-> NotApplied,
           caller |-> Threw(E_args), evBase |-> [a |-> a, m |-> Summary(<<>>)]]
     ELSE IF o.kind = "promise"
     THEN [S |-> S, steps |-> <<"attr", "makeArgs", "orig">>,
           applied |-> Applied(ctx, args), caller |-> Promise,
           evBase |-> [a |-> a, m |-> m]]
     ELSE CallAndLog(S, E, c, table, snapshot, a, op, w, m, o, Applied(ctx, args))
          @@ [evBase |-> [a |-> a, m |-> m]]

\* the attribution the continuations log: the one evBase captured at entry
ContinuationAttr_AtSettle(evBase, ctxNow) ==
  currentPkgAndMaybeStack(ctxNow.store, ctxNow.stack)

ContinuationAttr(evBase, ctxNow) == evBase.a

\* result.then((v) => { logEvent(ok record); return v; })
\*       .catch((e) => { logEvent(error record); throw e; })
\* settled is the outcome of the original's awaitable; the result is what
\* the derived promise settles with
wrapAsyncSettle(S, E, c, table, snapshot, op, evBase, ctxNow, settled) ==
  LET w == WrapperOf(op)
      a == ContinuationAttr(evBase, ctxNow)
  IN IF settled.kind = "throw"
     THEN CatchAndRethrow(S, E, c, table, snapshot, a, op, w, evBase.m,
                          settled.err, <<>>, NotApplied)
     ELSE LET l == logEvent(S, E, c, table, snapshot, OkRec(a, op, w, evBase.m))
          IN IF l.threw
             THEN CatchAndRethrow(l.S, E, c, table, snapshot, a, op, w,
                                  evBase.m, E_sink, <<"logEvent">>, NotApplied)
             ELSE [S |-> l.S, steps |-> <<"logEvent">>, applied |-> NotApplied,
                   caller |-> settled]

\* ------------------------------------------------------------ tamper detector

CheckedTargets ==
  <<"fs.writeFileSync", "child_process.spawn", "http.request", "dns.lookup">>

OpLen(op) ==
  CASE op = "fs.writeFileSync" -> 16 [] op = "child_process.spawn" -> 19
    [] op = "http.request" -> 12 [] op = "dns.lookup" -> 10 [] OTHER -> 0

TamperRec(pkg, target) ==
  Rec(pkg, "tamper", "tamper",
      Summary(<< <<"target", Str(target, OpLen(target))>>,
                 <<"reason", Str("wrapper_missing", 15)>> >>),
      "ok", NoErr, "none")

\* the loop over checks, from the i-th on: a function without the marker
\* (anything but a wrapper) is reported through logEvent
RECURSIVE DetectFrom(_, _, _, _, _, _, _)
DetectFrom(i, S, E, c, table, snapshot, pkg) ==
  IF i > Len(CheckedTargets) THEN [S |-> S, threw |-> FALSE]
  ELSE IF table[CheckedTargets[i]] = Wrapped
       THEN DetectFrom(i + 1, S, E, c, table, snapshot, pkg)
       ELSE LET l == logEvent(S, E, c, table, snapshot,
                              TamperRec(pkg, CheckedTargets[i]))
            IN IF l.threw THEN l
               ELSE DetectFrom(i + 1, l.S, E, c, table, snapshot, pkg)

detectTampering(S, E, c, table, snapshot, stack) ==
  IF c.hardening # "detect" THEN [S |-> S, threw |-> FALSE]
  ELSE DetectFrom(1, S, E, c, table, snapshot, inferPackageFromStack(stack))

\* ------------------------------------------------------------------- bootstrap

CfgLen(x) ==
  CASE x = "package-only" -> 12 [] x = "all" -> 3 [] x = "detect" -> 6
    [] x = "off" -> 3 [] OTHER -> 0

StartupRec(c) ==
  Rec(MALWATCH, "startup", "tamper",
      Summary(<< <<"logFile", Str("logFilePath", 20)>>,
                 <<"filter", Str(c.filter, CfgLen(c.filter))>>,
                 <<"hardening", Str(c.hardening, CfgLen(c.hardening))>> >>),
      "ok", NoErr, "none")

PreloadErrorRec ==
  Rec(MALWATCH, "preload_error", "tamper",
      Summary(<< <<"message", truncateString(E_sink.message, 500)>> >>),
      "error", ErrOf(E_sink), "none")

recordStartup_Filtered(S, E, c, table, snapshot) ==
  logEvent(S, E, c, table, snapshot, StartupRec(c))

recordStartup(S, E, c, table, snapshot) ==
  writeLine(S, E, table, snapshot, StartupRec(c))

SinkFns == {"fs.mkdirSync", "fs.openSync", "fs.writeSync"}
\* what patchFs .. patchHttp assign; fs.writeSync is not among them
PatchedSlots == WrapperOps \cup {"fs.mkdirSync", "fs.openSync"}
Slots == WrapperOps \cup SinkFns

\* ------------------------------------------------------- the observed process

Configs ==
  [filter : {"package-only", "all"}, includePm : BOOLEAN,
   hardening : {"detect", "off"}]

\* during the bootstrap, and during a later handler
Envs == [openOk : BOOLEAN, writeOk : BOOLEAN]
IoEnvs == {[openOk |-> b, writeOk |-> b] : b \in BOOLEAN}

Header == [form |-> "other", path |-> <<>>]
F_internal == [form |-> "paren", path |-> <<"node:internal", "/", "timers">>]
F_preload ==
  [form |-> "paren", path |-> <<"/", "tmp", "/", "npm-malwatch-1", "/", "preload.cjs">>]
F_eval == [form |-> "bare", path |-> <<"[eval]">>]
F_npm ==
  [form |-> "bare",
   path |-> <<"/", "usr", "/", "lib", "/", "node_modules", "/", "npm", "/", "cli.js">>]

\* the stack when the runtime itself calls a callback of the preload
InternalStack == StackOf(<<Header, F_preload, F_internal>>)
UserStack == StackOf(<<Header, F_preload, F_eval, F_internal>>)
PmStack == StackOf(<<Header, F_preload, F_npm, F_internal>>)

\* the contexts [store, stack, this] a call is made in
Contexts ==
  { [store |-> NoStore, stack |-> UserStack, this |-> "fs"],
    [store |-> StoreOf(<<"a">>), stack |-> PmStack, this |-> "fs"],
    [store |-> NoStore, stack |-> PmStack, this |-> "fs"] }

ExitStacks == {UserStack, PmStack}

\* the wrappers the observed program calls in the model
CallableOps == {"fs.writeFileSync", "http.request", "dns.lookup"}

K_token == <<"T","o","k","e","n">>
K_mode == <<"m","o","d","e">>

\* the argument vectors of the calls: a path and an options object, the
\* second with a property whose read raises
PlainArgs == Arr(<<Str("x.tmp", 5), Obj(<<K_token>>, <<Str("s3cr3t", 6)>>)>>)
RaisingArgs == Arr(<<Str("x.tmp", 5), Obj(<<K_mode>>, <<GetterThrows>>)>>)
CallArgs == {PlainArgs, RaisingArgs}

\* what is remembered of the latest wrapper invocation: the steps it took,
\* what the original was applied to and did (orig), what the caller got,
\* the caller's this and arguments, the package current at entry and the
\* one current when the record was written, the length of the log before
\* the step that logged, and whether the write of that step succeeded
NoLast ==
  [done |-> FALSE, op |-> "", steps |-> <<>>, applied |-> NotApplied,
   orig |-> Promise, caller |-> Promise, this |-> "", args |-> Undef,
   before |-> 0, writeOk |-> TRUE, entryPkg |-> NoPkg, nowPkg |-> NoPkg,
   settled |-> FALSE]

NoDetect ==
  [ran |-> FALSE, via |-> "", unmarked |-> {}, before |-> 0, writeOk |-> TRUE,
   pkg |-> NoPkg]

NoBoot == [steps |-> <<>>, frozen |-> {}, writeOk |-> TRUE]

EmptySink == [logFd |-> "null", log |-> <<>>, used |-> {}, failed |-> FALSE]

Idle ==
  /\ phase = "load"
  /\ sink = EmptySink
  /\ fns = [s \in Slots |-> Orig]
  /\ realFs = [s \in SinkFns |-> Orig]
  /\ installed = FALSE
  /\ immediate = FALSE
  /\ listeners = {}
  /\ pending = <<>>
  /\ last = NoLast
  /\ lastDetect = NoDetect
  /\ boot = NoBoot
  /\ nCalls = 0
  /\ nTampers = 0

Init ==
  /\ cfg \in Configs
  /\ Idle
  /\ pureIn = Undef
  /\ pureOut = Undef

procVars == << cfg, phase, sink, fns, realFs, installed, immediate, listeners,
               pending, last, lastDetect, boot, nCalls, nTampers >>
pureVars == << pureIn, pureOut >>

\* The preload's top level: realFs = { ...fs }; try { recordStartup();
\* patchFs(); ... setImmediate(detectTampering); process.on(...) } catch (e)
\* { try { writeLine(preload_error) } catch {} }. frozen are the slots whose
\* assignment raises inside tryPatch.
Bootstrap(E1, E2, frozen) ==
  /\ phase = "load"
  /\ \E snapshot \in {[s \in SinkFns |-> fns[s]]} :
     \E r1 \in {recordStartup(sink, E1, cfg, fns, snapshot)} :
     \E r2 \in {writeLine(r1.S, E2, fns, snapshot, PreloadErrorRec)} :
        /\ realFs' = snapshot
        /\ IF ~r1.threw
           THEN /\ sink' = r1.S
                /\ fns' = [s \in Slots |->
                             IF s \in PatchedSlots \ frozen THEN Wrapped ELSE fns[s]]
                /\ installed' = TRUE
                /\ immediate' = TRUE
                /\ listeners' = {"beforeExit", "exit"}
                /\ boot' = [steps |-> <<"recordStartup", "patch", "setImmediate",
                                       "on:beforeExit", "on:exit">>,
                            frozen |-> frozen, writeOk |-> E1.writeOk]
           ELSE /\ sink' = r2.S
                /\ boot' = [steps |-> <<"recordStartup", "preload_error">>,
                            frozen |-> {}, writeOk |-> E2.writeOk]
                /\ UNCHANGED << fns, installed, immediate, listeners >>
  /\ phase' = "main"
  /\ UNCHANGED << cfg, pending, last, lastDetect, nCalls, nTampers >>
  /\ UNCHANGED pureVars

Running == phase \in {"main", "loop", "drained"}

\* the observed program calls a wrapper built by wrapSync
SyncCall(op, ctx, args, o, E) ==
  /\ Running /\ installed /\ op \notin boot.frozen
  /\ WrapperOf(op).kind = "sync"
  /\ nCalls < MaxCalls
  /\ \E r \in {wrapSync(sink, E, cfg, fns, realFs, op, ctx, args, o)} :
        /\ sink' = r.S
        /\ last' = [done |-> TRUE, op |-> op, steps |-> r.steps,
                    applied |-> r.applied, orig |-> o, caller |-> r.caller,
                    this |-> ctx.this, args |-> args, before |-> Len(sink.log),
                    writeOk |-> E.writeOk,
                    entryPkg |-> currentPkgAndMaybeStack(ctx.store, ctx.stack).pkg,
                    nowPkg |-> currentPkgAndMaybeStack(ctx.store, ctx.stack).pkg,
                    settled |-> FALSE]
  /\ nCalls' = nCalls + 1
  /\ UNCHANGED << cfg, phase, fns, realFs, installed, immediate, listeners,
                  pending, lastDetect, boot, nTampers >>
  /\ UNCHANGED pureVars

\* the observed program calls a wrapper built by wrapAsync
AsyncCall(op, ctx, args, o, E) ==
  /\ Running /\ installed /\ op \notin boot.frozen
  /\ WrapperOf(op).kind = "async"
  /\ nCalls < MaxCalls
  /\ \E r \in {wrapAsync(sink, E, cfg, fns, realFs, op, ctx, args, o)} :
        /\ sink' = r.S
        /\ last' = [done |-> r.caller.kind # "promise", op |-> op,
                    steps |-> r.steps, applied |-> r.applied, orig |-> o,
                    caller |-> r.caller, this |-> ctx.this, args |-> args,
                    before |-> Len(sink.log), writeOk |-> E.writeOk,
                    entryPkg |-> currentPkgAndMaybeStack(ctx.store, ctx.stack).pkg,
                    nowPkg |-> currentPkgAndMaybeStack(ctx.store, ctx.stack).pkg,
                    settled |-> FALSE]
        /\ pending' = IF r.caller.kind = "promise"
                      THEN Append(pending,
                                  [op |-> op, evBase |-> r.evBase, ctx |-> ctx,
                                   args |-> args, applied |-> r.applied])
                      ELSE pending
  /\ nCalls' = nCalls + 1
  /\ UNCHANGED << cfg, phase, fns, realFs, installed, immediate, listeners,
                  lastDetect, boot, nTampers >>
  /\ UNCHANGED pureVars

RemoveAt(q, i) == SubSeq(q, 1, i - 1) \o SubSeq(q, i + 1, Len(q))

\* the awaitable of the i-th pending call settles, in some context ctxNow
Settle(i, settled, ctxNow, E) ==
  /\ phase = "loop"
  /\ i \in 1..Len(pending)
  /\ \E p \in {pending[i]} :
     \E r \in {wrapAsyncSettle(sink, E, cfg, fns, realFs, p.op, p.evBase,
                               ctxNow, settled)} :
        /\ sink' = r.S
        /\ last' = [done |-> TRUE, op |-> p.op,
                    steps |-> <<"attr", "makeArgs", "orig">> \o r.steps,
                    applied |-> p.applied, orig |-> settled, caller |-> r.caller,
                    this |-> p.ctx.this, args |-> p.args, before |-> Len(sink.log),
                    writeOk |-> E.writeOk,
                    entryPkg |-> currentPkgAndMaybeStack(p.ctx.store, p.ctx.stack).pkg,
                    nowPkg |-> currentPkgAndMaybeStack(ctxNow.store, ctxNow.stack).pkg,
                    settled |-> TRUE]
  /\ pending' = RemoveAt(pending, i)
  /\ UNCHANGED << cfg, phase, fns, realFs, installed, immediate, listeners,
                  lastDetect, boot, nCalls, nTampers >>
  /\ UNCHANGED pureVars

\* the observed program assigns f to a slot: a function of its own, or the
\* wrapper it had saved
Tamper(slot, f) ==
  /\ Running
  /\ nTampers < MaxTampers
  /\ fns[slot] # f
  /\ f = Wrapped => installed /\ slot \in PatchedSlots \ boot.frozen
  /\ fns' = [fns EXCEPT ![slot] = f]
  /\ nTampers' = nTampers + 1
  /\ UNCHANGED << cfg, phase, sink, realFs, installed, immediate, listeners,
                  pending, last, lastDetect, boot, nCalls >>
  /\ UNCHANGED pureVars

\* the slots the observed program assigns to in the model: the four the
\* detector checks and the write function of the sink
TamperSlots ==
  {"fs.writeFileSync", "child_process.spawn", "http.request", "dns.lookup",
   "fs.writeSync"}

Unmarked == {CheckedTargets[i] : i \in {j \in 1..Len(CheckedTargets) :
                                          fns[CheckedTargets[j]] # Wrapped}}

\* a run of detectTampering as the callback of `via`
Detect(via, stack, E) ==
  \E r \in {detectTampering(sink, E, cfg, fns, realFs, stack)} :
     /\ sink' = r.S
     /\ lastDetect' = [ran |-> TRUE, via |-> via, unmarked |-> Unmarked,
                       before |-> Len(sink.log), writeOk |-> E.writeOk,
                       pkg |-> inferPackageFromStack(stack)]

\* the main script returns
EndMain ==
  /\ phase = "main"
  /\ phase' = "loop"
  /\ UNCHANGED << cfg, sink, fns, realFs, installed, immediate, listeners,
                  pending, last, lastDetect, boot, nCalls, nTampers >>
  /\ UNCHANGED pureVars

\* setImmediate(detectTampering) fires
RunImmediate(E) ==
  /\ phase = "loop" /\ immediate
  /\ Detect("immediate", InternalStack, E)
  /\ immediate' = FALSE
  /\ UNCHANGED << cfg, phase, fns, realFs, installed, listeners, pending, last,
                  boot, nCalls, nTampers >>
  /\ UNCHANGED pureVars

\* the event loop is empty: beforeExit
BeforeExit(E) ==
  /\ phase = "loop" /\ ~immediate
  /\ IF "beforeExit" \in listeners
     THEN Detect("beforeExit", InternalStack, E)
     ELSE UNCHANGED << sink, lastDetect >>
  /\ phase' = "drained"
  /\ UNCHANGED << cfg, fns, realFs, installed, immediate, listeners, pending,
                  last, boot, nCalls, nTampers >>
  /\ UNCHANGED pureVars

\* nothing is left to do: exit
NaturalExit(E) ==
  /\ phase = "drained"
  /\ IF "exit" \in listeners
     THEN Detect("exit", InternalStack, E)
     ELSE UNCHANGED << sink, lastDetect >>
  /\ phase' = "exited"
  /\ UNCHANGED << cfg, fns, realFs, installed, immediate, listeners, pending,
                  last, boot, nCalls, nTampers >>
  /\ UNCHANGED pureVars

\* the observed program calls process.exit(): the exit listeners run inside
\* that call, on the caller's stack
ProcessExit(stack, E) ==
  /\ Running
  /\ IF "exit" \in listeners
     THEN Detect("exit", stack, E)
     ELSE UNCHANGED << sink, lastDetect >>
  /\ phase' = "exited"
  /\ UNCHANGED << cfg, fns, realFs, installed, immediate, listeners, pending,
                  last, boot, nCalls, nTampers >>
  /\ UNCHANGED pureVars

SyncOutcomes == {Returned("v"), Threw(E_orig)}
AsyncOutcomes == {Returned("undefined"), Threw(E_orig), Promise}
FrozenChoices == {{}, {"http.request"}}
UserCtx == [store |-> NoStore, stack |-> UserStack, this |-> "fs"]

\* The life of the process: the bootstrap, the observed program replacing
\* functions and making a call, the three schedules of the detector, the exit.
Next ==
  \/ \E E1 \in Envs, E2 \in Envs, frozen \in FrozenChoices : Bootstrap(E1, E2, frozen)
  \/ \E E \in IoEnvs : SyncCall("fs.writeFileSync", UserCtx, PlainArgs, Returned("v"), E)
  \/ \E slot \in TamperSlots, f \in {Foreign, Wrapped} : Tamper(slot, f)
  \/ EndMain
  \/ \E E \in IoEnvs : RunImmediate(E)
  \/ \E E \in IoEnvs : BeforeExit(E)
  \/ \E E \in IoEnvs : NaturalExit(E)
  \/ \E stack \in ExitStacks, E \in IoEnvs : ProcessExit(stack, E)

Spec == Init /\ [][Next]_vars

\* The wrappers: every wrapper, context, argument vector and outcome of the
\* original, while the observed program runs.
NextCalls ==
  \/ \E E1 \in Envs, E2 \in Envs : Bootstrap(E1, E2, {})
  \/ \E op \in CallableOps, ctx \in Contexts, args \in CallArgs,
        o \in SyncOutcomes, E \in IoEnvs : SyncCall(op, ctx, args, o, E)
  \/ \E op \in CallableOps, ctx \in Contexts, args \in CallArgs,
        o \in AsyncOutcomes, E \in IoEnvs : AsyncCall(op, ctx, args, o, E)
  \/ \E i \in 1..MaxCalls, settled \in SyncOutcomes, ctxNow \in Contexts,
        E \in IoEnvs : Settle(i, settled, ctxNow, E)
  \/ EndMain

SpecCalls == Init /\ [][NextCalls]_vars

\* ------------------------------------------------------- the wrapper contract

\* the records appended to the log after its first n
NewRecords(n) == SubSeq(sink.log, n + 1, Len(sink.log))

Occurrences(s, x) == Cardinality({i \in 1..Len(s) : s[i] = x})

\* C1: every wrapper invocation that has completed applied the original
\* exactly once, to the caller's this and arguments, and handed the caller
\* the original's outcome (its value, or the exception it raised or rejected
\* with); and when its record passes the filter and the write succeeds, it
\* appended exactly one record, after the original, with result ok for a
\* normal outcome and result error with {name, message} for an exception.
C1_OneCallOneRecord ==
  last.done =>
    /\ Occurrences(last.steps, "orig") = 1
    /\ last.applied = [called |-> TRUE, this |-> last.this, args |-> last.args]
    /\ last.caller = last.orig
    /\ (shouldEmitEvent(cfg, last.entryPkg) /\ last.writeOk) =>
         /\ Len(NewRecords(last.before)) = 1
         /\ last.steps = <<"attr", "makeArgs", "orig", "logEvent">>
         /\ LET rec == NewRecords(last.before)[1]
            IN /\ rec.op = last.op
               /\ rec.result = (IF last.orig.kind = "throw" THEN "error" ELSE "ok")
               /\ rec.error = (IF last.orig.kind = "throw"
                               THEN ErrOf(last.orig.err) ELSE NoErr)

\* C2: whatever fails inside the instrumentation (building the argument
\* summary, opening or writing the log), every completed wrapper invocation
\* has invoked the original and the caller observes exactly the original's
\* outcome; the failure costs at most the record.
C2_CallerSeesOriginalOutcome ==
  last.done =>
    /\ last.applied.called
    /\ last.caller = last.orig
    /\ Len(NewRecords(last.before)) <= 1

\* ------------------------------------------------------- the tamper contract

IsTamperRec(r, target) ==
  /\ r.op = "tamper" /\ r.category = "tamper"
  /\ r.args = Summary(<< <<"target", Str(target, OpLen(target))>>,
                         <<"reason", Str("wrapper_missing", 15)>> >>)

\* the targets the tamper records of a sequence of records name
TamperTargets(recs) ==
  {t \in WrapperOps : \E i \in 1..Len(recs) : IsTamperRec(recs[i], t)}

\* C3: at every run of detectTampering whose writes succeed, under
\* hardening=detect the targets of the tamper records it appended are exactly
\* the checked targets whose installed function lacks the wrapper marker; and
\* under any other hardening the log holds no tamper record at all.
C3_TamperRecordIffUnmarked ==
  /\ (lastDetect.ran /\ lastDetect.writeOk /\ cfg.hardening = "detect") =>
        TamperTargets(NewRecords(lastDetect.before)) = lastDetect.unmarked
  /\ cfg.hardening # "detect" =>
        \A i \in 1..Len(sink.log) : sink.log[i].op # "tamper"

\* C4: under hardening=detect, once the process has terminated with an
\* unmarked function installed at fs.writeFileSync and no write to the log
\* has failed, the log holds a tamper record for fs.writeFileSync.
C4_ExitLeavesTamperRecord ==
  ( /\ phase = "exited" /\ installed /\ cfg.hardening = "detect"
    /\ fns["fs.writeFileSync"] = Foreign /\ ~sink.failed ) =>
      "fs.writeFileSync" \in TamperTargets(sink.log)

\* ------------------------------------------------- attribution across awaits

\* C5: the record a continuation of a wrapped asynchronous call writes, when
\* the original's promise fulfils or rejects, carries the package that was
\* current when the wrapper was entered, whatever the scope and the stack
\* identify at that later moment.
C5_RecordCarriesEntryPackage ==
  last.settled =>
    \A i \in 1..Len(NewRecords(last.before)) :
       NewRecords(last.before)[i].pkg = last.entryPkg

\* a continuation wrote its record while another package was current
C5_SettledUnderOtherPackage ==
  /\ last.settled
  /\ last.nowPkg # last.entryPkg
  /\ Len(NewRecords(last.before)) = 1

\* ------------------------------------------------------------------ raw sink

\* the records of wrapper invocations in the log
CallRecords ==
  {i \in 1..Len(sink.log) :
     sink.log[i].op \notin {"startup", "preload_error", "tamper"}}

\* C6: every function the sink has called to create the directory, open and
\* write the log is one captured before any patch was applied, never a
\* wrapper and never a replacement the program installed later; and the log
\* holds at most one record per wrapper invocation.
C6_SinkBypassesWrappers ==
  /\ sink.used \subseteq {Orig}
  /\ Cardinality(CallRecords) <= nCalls

\* a wrapped call was logged after the program had replaced fs.writeSync
C6_LoggedAfterWriteSyncReplaced ==
  /\ fns["fs.writeSync"] = Foreign
  /\ fns["fs.openSync"] = Wrapped
  /\ last.done
  /\ Len(NewRecords(last.before)) = 1

\* ------------------------------------------------------------ startup record

\* C8: the bootstrap writes the startup record before it installs any
\* wrapper or schedules any tamper check; when that write succeeds the
\* startup record is the first record of the log, under every filter and
\* includePm setting, and no later record is a startup record.
C8_StartupRecordFirst ==
  /\ boot.steps # <<>> => boot.steps[1] = "recordStartup"
  /\ installed =>
       boot.steps = <<"recordStartup", "patch", "setImmediate",
                      "on:beforeExit", "on:exit">>
  /\ (installed /\ boot.writeOk) =>
       (sink.log # <<>> /\ sink.log[1] = StartupRec(cfg))
  /\ \A i \in 1..Len(sink.log) : sink.log[i].op = "startup" => i = 1

\* under filter=package-only the startup record is followed by a tamper record
C8_StartupThenTamper ==
  /\ cfg.filter = "package-only" /\ ~cfg.includePm
  /\ Len(sink.log) >= 2
  /\ sink.log[1] = StartupRec(cfg)
  /\ sink.log[2].op = "tamper"

\* ------------------------------------------------------------ the sink filter
\* logEvent applied to one record, on a sink that has not been opened yet.

PureCfg == [filter |-> "package-only", includePm |-> FALSE, hardening |-> "detect"]

FilterPkgs == {UNKNOWN, MALWATCH, PM_NPM, PM_PNPM, <<"a">>, <<"@", "s", "/", "p">>}

FilterRecords ==
  {Rec(pkg, "fs.writeFileSync", "fs", Summary(<<>>), "ok", NoErr, "none") :
     pkg \in FilterPkgs}

InitFilter ==
  /\ cfg \in Configs
  /\ Idle
  /\ pureIn \in FilterRecords
  /\ pureOut = Undef

LogOne(E) ==
  /\ pureOut = Undef
  /\ pureOut' = [t |-> "logEvent", E |-> E,
                 r |-> logEvent(sink, E, cfg, fns, realFs, pureIn)]
  /\ UNCHANGED pureIn
  /\ UNCHANGED procVars

NextFilter == \E E \in Envs : LogOne(E)

SpecFilter == InitFilter /\ [][NextFilter]_vars

\* the cases in which the claim says a record is dropped
C7_Dropped(c, pkg) ==
  /\ c.filter = "package-only"
  /\ \/ pkg = MALWATCH
     \/ ~c.includePm /\ pkg[1] = "<pm:"

\* C7: logEvent drops a record exactly when filter=package-only and either
\* its pkg is <malwatch>, or includePm is false and its pkg begins with <pm: ;
\* a dropped record leaves the sink untouched, and every other record,
\* <unknown> included, is the one line appended when the log can be opened
\* and written.
C7_FilterDropsExactly ==
  pureOut.t = "logEvent" =>
    IF C7_Dropped(cfg, pureIn.pkg)
    THEN pureOut.r = [S |-> EmptySink, threw |-> FALSE]
    ELSE /\ pureOut.r.S.used # {}
         /\ (pureOut.E.openOk /\ pureOut.E.writeOk) =>
               pureOut.r.S.log = <<pureIn>>

\* under filter=package-only a record attributed to <unknown> was written
C7_UnknownWritten ==
  /\ pureOut.t = "logEvent"
  /\ cfg.filter = "package-only" /\ ~cfg.includePm
  /\ pureIn.pkg = UNKNOWN
  /\ pureOut.r.S.log = <<pureIn>>

\* ------------------------------------------------------------------ redaction
\* makeArgs applied to argument vectors built from sensitive and plain keys.

\* Nesting of the objects and arrays drawn as arguments.
MaxNesting == 2

K_PASSWORD == <<"P","A","S","S","W","O","R","D">>
K_clientSecret == <<"c","l","i","e","n","t","S","e","c","r","e","t">>
K_Authorization == <<"A","u","t","h","o","r","i","z","a","t","i","o","n">>
K_SetCookie == <<"S","e","t","-","C","o","o","k","i","e">>
K_sessionId == <<"s","e","s","s","i","o","n","I","d">>
K_pas == <<"p","a","s">>

\* the keys of the inputs that match pass|token|secret|auth|cookie|session
\* without regard to case, and those that do not
SensitiveKeys ==
  {K_PASSWORD, K_token, K_clientSecret, K_Authorization, K_SetCookie, K_sessionId}
PlainKeys == {K_mode, K_pas}
InputKeys == SensitiveKeys \cup PlainKeys

Leaves == {Str("v", 3), Str("long", 600), Num}

RECURSIVE Nested(_)
Nested(d) ==
  IF d = 0 THEN Leaves
  ELSE Leaves \cup {Obj(<<k>>, <<v>>) : k \in InputKeys, v \in Nested(d - 1)}
              \cup {Arr(<<v>>) : v \in Nested(d - 1)}

RedactInputs ==
  {Arr(<<Str("x.tmp", 5), v>>) : v \in Nested(MaxNesting)}
  \cup {Arr(<<Obj(<<kk[1], kk[2]>>, <<v1, v2>>)>>) :
          kk \in {x \in SensitiveKeys \X InputKeys : x[1] # x[2]},
          v1 \in Leaves, v2 \in Leaves}

MakeArgsKinds == {"path", "spawn", "command", "host", "connect", "http"}

InitRedact ==
  /\ cfg = PureCfg
  /\ Idle
  /\ pureIn \in RedactInputs
  /\ pureOut = Undef

Summarise(kind) ==
  /\ pureOut = Undef
  /\ pureOut' = [t |-> "summary", kind |-> kind, m |-> makeArgs(kind, pureIn)]
  /\ UNCHANGED pureIn
  /\ UNCHANGED procVars

NextRedact == \E kind \in MakeArgsKinds : Summarise(kind)

SpecRedact == InitRedact /\ [][NextRedact]_vars

\* the argv field of an argument summary
ArgvOf(m) ==
  m.fields[CHOOSE i \in 1..Len(m.fields) : m.fields[i][1] = "argv"][2]

\* every sensitive key retained anywhere inside v has the value "<redacted>"
RECURSIVE AllSensitiveRedacted(_)
AllSensitiveRedacted(v) ==
  IF v.t = "arr" THEN \A i \in 1..Len(v.items) : AllSensitiveRedacted(v.items[i])
  ELSE IF v.t = "obj" THEN
    \A i \in 1..Len(v.keys) :
       IF v.keys[i] \in SensitiveKeys THEN v.vals[i] = Redacted
       ELSE AllSensitiveRedacted(v.vals[i])
  ELSE TRUE

\* v with the value under every sensitive key replaced by s
RECURSIVE Scrub(_, _)
Scrub(v, s) ==
  IF v.t = "arr" THEN Arr([i \in 1..Len(v.items) |-> Scrub(v.items[i], s)])
  ELSE IF v.t = "obj" THEN
    Obj(v.keys, [i \in 1..Len(v.keys) |->
                   IF v.keys[i] \in SensitiveKeys THEN s ELSE Scrub(v.vals[i], s)])
  ELSE v

OtherSecrets == {Str("other", 5), Num, Obj(<<K_mode>>, <<Str("other", 5)>>)}

\* C9: in the argument summary of a record, every retained object key that
\* matches pass|token|secret|auth|cookie|session case-insensitively has the
\* value "<redacted>", and the summary is the same whatever values the
\* call holds under such keys.
C9_SensitiveValuesRedacted ==
  pureOut.t = "summary" =>
    /\ pureOut.m.t = "args"
    /\ AllSensitiveRedacted(ArgvOf(pureOut.m))
    /\ \A s \in OtherSecrets :
          makeArgs(pureOut.kind, Scrub(pureIn, s)) = pureOut.m

\* a summary that retains a mixed-case sensitive key next to a plain one
C9_MixedCaseKeyRedacted ==
  /\ pureOut.t = "summary"
  /\ pureIn = Arr(<<Obj(<<K_Authorization, K_pas>>, <<Str("v", 3), Str("v", 3)>>)>>)
  /\ ArgvOf(pureOut.m) =
       Arr(<<Obj(<<K_Authorization, K_pas>>, <<Redacted, Str("v", 3)>>)>>)

\* ---------------------------------------------------------------- attribution
\* currentPkgAndMaybeStack applied to a scope and a stack of frames.

F_a ==
  [form |-> "paren",
   path |-> <<"/", "p", "/", "node_modules", "/", "a", "/", "index.js">>]
F_b_bare ==
  [form |-> "bare",
   path |-> <<"/", "p", "/", "node_modules", "/", "b", "/", "lib", "/", "x.js">>]
F_scoped ==
  [form |-> "paren",
   path |-> <<"/", "p", "/", "node_modules", "/", "@", "s", "/", "c", "/", "i.js">>]
F_npmcli ==
  [form |-> "paren",
   path |-> <<"/", "p", "/", "node_modules", "/", "@", "npmcli", "/", "arborist",
              "/", "i.js">>]
F_pnpm ==
  [form |-> "bare",
   path |-> <<"/", "p", "/", "node_modules", "/", "pnpm", "/", "bin", "/", "pnpm.cjs">>]
F_own ==
  [form |-> "paren",
   path |-> <<"/", "p", "/", "node_modules", "/", "npm-malwatch", "/", "dist", "/",
              "preload.cjs">>]
F_dotbin ==
  [form |-> "paren",
   path |-> <<"/", "p", "/", "node_modules", "/", ".", "bin", "/", "tool">>]
F_windows ==
  [form |-> "paren",
   path |-> <<"C:", "\\", "p", "\\", "node_modules", "\\", "w", "\\", "i.js">>]
\* a line that names a package path but is not a frame
F_message ==
  [form |-> "other",
   path |-> <<"/", "p", "/", "node_modules", "/", "m", "/", "index.js">>]

Frames ==
  {Header, F_internal, F_eval, F_a, F_b_bare, F_scoped, F_npmcli, F_pnpm, F_own,
   F_dotbin, F_windows, F_message}

RECURSIVE StacksUpTo(_)
StacksUpTo(n) ==
  IF n = 0 THEN {<<>>}
  ELSE StacksUpTo(n - 1)
       \cup {Append(st, f) : st \in {x \in StacksUpTo(n - 1) : Len(x) = n - 1},
                             f \in Frames}

AttrStores == {NoStore, StoreOf(<<"a">>), StoreOf(PM_NPM)}

AttrInputs ==
  [store : AttrStores,
   stack : {NoStack} \cup {StackOf(st) : st \in StacksUpTo(MaxStackLines)}]

InitAttr ==
  /\ cfg = PureCfg
  /\ Idle
  /\ pureIn \in AttrInputs
  /\ pureOut = Undef

Attribute ==
  /\ pureOut = Undef
  /\ pureOut' = [t |-> "attr",
                 r |-> currentPkgAndMaybeStack(pureIn.store, pureIn.stack)]
  /\ UNCHANGED pureIn
  /\ UNCHANGED procVars

NextAttr == Attribute

SpecAttr == InitAttr /\ [][NextAttr]_vars

\* the identity the claim gives each frame of the inputs: the package its
\* source path lies in, package managers collapsed; NoPkg for a line that
\* is no frame, a path outside node_modules, and npm-malwatch itself
FrameIdentity(f) ==
  CASE f = F_a -> <<"a">>
    [] f = F_b_bare -> <<"b">>
    [] f = F_scoped -> <<"@", "s", "/", "c">>
    [] f = F_npmcli -> PM_NPM
    [] f = F_pnpm -> PM_PNPM
    [] f = F_windows -> <<"w">>
    [] OTHER -> NoPkg

\* the identity of the first frame, top-down, that has one
RECURSIVE FirstIdentity(_)
FirstIdentity(lines) ==
  IF lines = <<>> THEN UNKNOWN
  ELSE IF FrameIdentity(Head(lines)) # NoPkg THEN FrameIdentity(Head(lines))
  ELSE FirstIdentity(Tail(lines))

MaxPathParts == 4

PathParts ==
  { <<"/", "node_modules">>, <<"/", "a">>, <<"/", "@", "s">>, <<"/", ".", "bin">>,
    <<"/">>, <<"/", "npm">>, <<"/", "@", "npmcli">>, <<"\\", "pnpm">>,
    <<"/", "@", "pnpm">> }

RECURSIVE PathsUpTo(_)
PathsUpTo(n) ==
  IF n = 0 THEN {<<>>}
  ELSE PathsUpTo(n - 1)
       \cup {q \o part : q \in PathsUpTo(n - 1), part \in PathParts}

PnpmStorePath ==
  <<"/", "x", "/", "node_modules", "/", ".", "pnpm", "/", "lodash@4.17.21", "/",
    "node_modules", "/", "lodash", "/", "index.js">>
WindowsPath ==
  <<"C:", "\\", "x", "\\", "node_modules", "\\", "@", "s", "\\", "c", "\\", "i.js">>

PathInputs == PathsUpTo(MaxPathParts) \cup {PnpmStorePath, WindowsPath}

InitPath ==
  /\ cfg = PureCfg
  /\ Idle
  /\ pureIn \in PathInputs
  /\ pureOut = Undef

\* const pkgNameRaw = packageNameFromFilePath(p);
\* const pkgName = pkgNameRaw ? classifyPackageDisplayName(pkgNameRaw) : null
NameOfPath ==
  /\ pureOut = Undef
  /\ \E name \in {packageNameFromFilePath(pureIn)} :
       pureOut' = [t |-> "pkgname", name |-> name,
                   display |-> IF name = NoPkg THEN NoPkg
                               ELSE classifyPackageDisplayName(name)]
  /\ UNCHANGED pureIn
  /\ UNCHANGED procVars

NextPath == NameOfPath

SpecPath == InitPath /\ [][NextPath]_vars

IsSep(tok) == tok \in {"/", "\\"}

\* the places where /node_modules/ occurs in p
NodeModulesAt(p) ==
  {i \in 1..(Len(p) - 2) :
     IsSep(p[i]) /\ p[i + 1] = "node_modules" /\ IsSep(p[i + 2])}

\* what follows the last /node_modules/ of p
AfterLastNodeModules(p) ==
  LET i == CHOOSE i \in NodeModulesAt(p) : \A j \in NodeModulesAt(p) : j <= i
  IN SubSeq(p, i + 3, Len(p))

\* the k-th segment of r, segments being the non-empty runs between
\* separators; <<>> when r has fewer than k segments
SegmentStarts(r) ==
  {i \in 1..Len(r) : ~IsSep(r[i]) /\ (i = 1 \/ IsSep(r[i - 1]))}

Segment(r, k) ==
  LET starts == {i \in SegmentStarts(r) :
                   Cardinality({j \in SegmentStarts(r) : j <= i}) = k}
  IN IF starts = {} THEN <<>>
     ELSE LET a == CHOOSE i \in starts : TRUE
              ends == {j \in a..Len(r) : j = Len(r) \/ IsSep(r[j + 1])}
              b == CHOOSE j \in ends : \A x \in ends : j <= x
          IN SubSeq(r, a, b)

\* the name built of the first segment, or of the first two when the first
\* begins with @; NoPkg when a scope has no second segment
NameOfSegments(r) ==
  IF Segment(r, 1) = <<>> THEN NoPkg
  ELSE IF Segment(r, 1)[1] = "@"
       THEN (IF Segment(r, 2) = <<>> THEN NoPkg
             ELSE Segment(r, 1) \o <<"/">> \o Segment(r, 2))
       ELSE Segment(r, 1)

\* the display name of the claim: package managers collapse to a sentinel
DisplayOf(name) ==
  IF name = <<"npm">> \/ (Len(name) >= 3 /\ SubSeq(name, 1, 3) = <<"@", "npmcli", "/">>)
  THEN PM_NPM
  ELSE IF name = <<"pnpm">>
          \/ (Len(name) >= 3 /\ SubSeq(name, 1, 3) = <<"@", "pnpm", "/">>)
  THEN PM_PNPM
  ELSE name

\* C11 as stated: the name is that of the first segment after the last
\* /node_modules/ (two segments for a scope), and there is none when there
\* is no /node_modules/, when that segment begins with a dot, or when a
\* scope has no second segment; package managers collapse to their sentinel.
C11_NameOfFirstSegment ==
  pureOut.t = "pkgname" =>
    /\ pureOut.name =
         (IF NodeModulesAt(pureIn) = {} THEN NoPkg
          ELSE LET r == AfterLastNodeModules(pureIn)
               IN IF Segment(r, 1) # <<>> /\ Segment(r, 1)[1] = "." THEN NoPkg
                  ELSE NameOfSegments(r))
    /\ pureOut.name # NoPkg => pureOut.display = DisplayOf(pureOut.name)

\* C11, amended: as above, but the dot that suppresses the name is the first
\* character after the last /node_modules/, not the first character of the
\* first segment: when empty segments come first (a doubled separator), a
\* first segment that begins with a dot is returned as the name.
C11_NameUnlessDotFollows ==
  pureOut.t = "pkgname" =>
    /\ pureOut.name =
         (IF NodeModulesAt(pureIn) = {} THEN NoPkg
          ELSE LET r == AfterLastNodeModules(pureIn)
               IN IF r # <<>> /\ r[1] = "." THEN NoPkg
                  ELSE NameOfSegments(r))
    /\ pureOut.name # NoPkg => pureOut.display = DisplayOf(pureOut.name)

\* the pnpm store path yields the package behind the last /node_modules/
C11_PnpmStorePathNamed ==
  /\ pureOut.t = "pkgname"
  /\ pureIn = PnpmStorePath
  /\ pureOut.name = <<"lodash">>

\* ------------------------------------------------------------------ size caps
\* truncateString, makeArgs, shortenStack and the error summary applied to
\* values whose sizes lie around the caps.

\* How far below and above a cap the sizes of the inputs go.
Over == 1

Around(c) == {n \in (c - Over)..(c + Over) : n >= 0}

\* the maxLen values truncateString is called with, and the smallest one
TruncateCaps == {1, 20, 200, 300, 400, 500, STACK_CHARS}

TruncInputs ==
  {[t |-> "trunc", v |-> Str("s", l), n |-> n] :
     l \in {0, 5000} \cup UNION {Around(c) : c \in TruncateCaps},
     n \in TruncateCaps}

Digits == <<"0", "1", "2", "3", "4", "5", "6", "7", "8", "9">>
CapKey(i) == <<"k", Digits[(i \div 10) + 1], Digits[(i % 10) + 1]>>

ArrOfSize(k) == Arr([i \in 1..k |-> Str("e", 3)])
ObjOfSize(k) == Obj([i \in 1..k |-> CapKey(i)], [i \in 1..k |-> Str("long", 600)])

RECURSIVE NestOf(_)
NestOf(d) == IF d = 0 THEN Str("deep", 600) ELSE Arr(<<NestOf(d - 1)>>)

CapFirstArgs ==
  {Str("s", l) : l \in UNION {Around(c) : c \in {300, 400, 500}}}
  \cup {Obj(<<K_host, K_hostname, K_method, K_port>>,
            <<Str("h", l), Str("h", l), Str("GET", l), Num>>) :
          l \in Around(300)}

CapSecondArgs ==
  {Undef}
  \cup {ArrOfSize(k) : k \in Around(20)}
  \cup {ObjOfSize(k) : k \in Around(40)}
  \cup {NestOf(d) : d \in 1..(3 + Over)}

CallCapInputs ==
  {[t |-> "call", kind |-> kind, args |-> Arr(<<a0, a1>>)] :
     kind \in MakeArgsKinds, a0 \in CapFirstArgs, a1 \in CapSecondArgs}
  \cup {[t |-> "call", kind |-> kind, args |-> ArrOfSize(k)] :
          kind \in MakeArgsKinds, k \in Around(20)}

StackCapInputs ==
  {[t |-> "stack", stack |-> [defined |-> d, lens |-> pre \o [i \in 1..k |-> l]]] :
     d \in BOOLEAN, pre \in {<<>>, <<0, 0>>}, k \in {0} \cup Around(STACK_LINES),
     l \in {1, 80, 166, 167, 2001}}

ErrCapInputs ==
  {[t |-> "err", e |-> [name |-> "Error", message |-> Str("m", l)]] :
     l \in Around(500)}

InitCaps ==
  /\ cfg = PureCfg
  /\ Idle
  /\ pureIn \in TruncInputs \cup CallCapInputs \cup StackCapInputs \cup ErrCapInputs
  /\ pureOut = Undef

Truncate ==
  /\ pureOut = Undef /\ pureIn.t = "trunc"
  /\ pureOut' = [t |-> "truncated", v |-> truncateString(pureIn.v, pureIn.n)]
  /\ UNCHANGED pureIn
  /\ UNCHANGED procVars

SummariseCall ==
  /\ pureOut = Undef /\ pureIn.t = "call"
  /\ pureOut' = [t |-> "capsummary", m |-> makeArgs(pureIn.kind, pureIn.args)]
  /\ UNCHANGED pureIn
  /\ UNCHANGED procVars

ShortenStack ==
  /\ pureOut = Undef /\ pureIn.t = "stack"
  /\ pureOut' = [t |-> "shortened", s |-> shortenStack(pureIn.stack)]
  /\ UNCHANGED pureIn
  /\ UNCHANGED procVars

SummariseError ==
  /\ pureOut = Undef /\ pureIn.t = "err"
  /\ pureOut' = [t |-> "errorof", e |-> ErrOf(pureIn.e)]
  /\ UNCHANGED pureIn
  /\ UNCHANGED procVars

NextCaps == Truncate \/ SummariseCall \/ ShortenStack \/ SummariseError

SpecCaps == InitCaps /\ [][NextCaps]_vars

\* the caps the claim gives the typed fields of args
FieldCap(name) ==
  CASE name \in {"path", "href"} -> 500
    [] name \in {"host", "hostname"} -> 300
    [] name = "command" -> 400
    [] OTHER -> -1

\* v respects the caps of the redacted argument vector, levels being the
\* levels of nesting still allowed from v down
RECURSIVE WithinCaps(_, _)
WithinCaps(v, levels) ==
  IF v.t = "str" THEN v.len <= 500
  ELSE IF v.t = "arr" THEN
    /\ levels >= 1 /\ Len(v.items) <= 20
    /\ \A i \in 1..Len(v.items) : WithinCaps(v.items[i], levels - 1)
  ELSE IF v.t = "obj" THEN
    /\ levels >= 1 /\ Len(v.keys) <= 40
    /\ \A i \in 1..Len(v.keys) : WithinCaps(v.vals[i], levels - 1)
  ELSE TRUE

\* C12: truncateString(v, n), n >= 1, returns v when v has at most n
\* characters and otherwise n characters, the first n-1 of v and an ellipsis;
\* in an argument summary path and href have at most 500 characters, host and
\* hostname at most 300, command at most 400, every string of argv at most
\* 500, every array of argv at most 20 elements, every object at most 40
\* keys, with at most 3 levels of nesting; error.message has at most 500
\* characters; a stack has at most 12 lines and 2000 characters.
C12_FieldsWithinCaps ==
  /\ pureOut.t = "truncated" =>
       pureOut.v = (IF pureIn.v.len <= pureIn.n THEN pureIn.v
                    ELSE [t |-> "str", id |-> pureIn.v.id, len |-> pureIn.n,
                          ell |-> TRUE])
  /\ pureOut.t = "capsummary" =>
       /\ pureOut.m.t = "args"
       /\ \A i \in 1..Len(pureOut.m.fields) :
            LET f == pureOut.m.fields[i]
            IN (FieldCap(f[1]) >= 0 /\ f[2].t = "str") => f[2].len <= FieldCap(f[1])
       /\ WithinCaps(ArgvOf(pureOut.m), 3)
  /\ pureOut.t = "shortened" =>
       (pureOut.s.t = "stack" => (pureOut.s.lines <= 12 /\ pureOut.s.len <= 2000))
  /\ pureOut.t = "errorof" => pureOut.e.message.len <= 500

\* a call with an argument too long, one too many and one nested too deep
C12_OversizedCallCapped ==
  /\ pureOut.t = "capsummary"
  /\ pureIn.kind = "path"
  /\ pureIn.args = Arr(<<Str("s", 501), NestOf(3)>>)
  /\ pureOut.m.fields[1] = <<"path", [t |-> "str", id |-> "s", len |-> 500, ell |-> TRUE]>>
  /\ ArgvOf(pureOut.m).items[2] = Arr(<<Arr(<<Truncated>>)>>)

\* ======================================================== the preflight library
\* ----------------------------------------------------------- ensureIgnoreScripts
\* A command is a sequence of tokens.

\* Longest command, in tokens, drawn as input.
MaxCmdLen == 3

IgnoreScripts == "--ignore-scripts"
InstallVerbs == {"install", "i", "add", "ci"}

Includes(seq, x) == \E i \in 1..Len(seq) : seq[i] = x

ensureIgnoreScripts_NoFlagCheck(cmd) ==
  IF Len(cmd) = 0 THEN [pmCommand |-> cmd, injected |-> FALSE]
  ELSE IF ~(\E i \in 1..Len(cmd) : cmd[i] \in InstallVerbs)
  THEN [pmCommand |-> cmd, injected |-> FALSE]
  ELSE [pmCommand |-> Append(cmd, IgnoreScripts), injected |-> TRUE]

ensureIgnoreScripts(cmd) ==
  IF Len(cmd) = 0 THEN [pmCommand |-> cmd, injected |-> FALSE]
  ELSE IF Includes(cmd, IgnoreScripts) THEN [pmCommand |-> cmd, injected |-> FALSE]
  ELSE LET installLike ==
             \/ (IF Len(cmd) >= 2 THEN cmd[2] ELSE "") \in InstallVerbs
             \/ \E i \in 1..Len(cmd) : cmd[i] \in InstallVerbs
       IN IF ~installLike THEN [pmCommand |-> cmd, injected |-> FALSE]
          ELSE [pmCommand |-> Append(cmd, IgnoreScripts), injected |-> TRUE]

CmdTokens ==
  {"npm", "pnpm", "run", "-D", "left-pad", IgnoreScripts} \cup InstallVerbs

RECURSIVE CmdsUpTo(_)
CmdsUpTo(n) ==
  IF n = 0 THEN {<<>>}
  ELSE CmdsUpTo(n - 1)
       \cup {Append(c, tok) : c \in CmdsUpTo(n - 1), tok \in CmdTokens}

InitIgnore ==
  /\ cfg = PureCfg
  /\ Idle
  /\ pureIn \in CmdsUpTo(MaxCmdLen)
  /\ pureOut = Undef

\* ensureIgnoreScripts applied to a command, and then to its own output
EnsureTwice ==
  /\ pureOut = Undef
  /\ \E r \in {ensureIgnoreScripts(pureIn)} :
       pureOut' = [t |-> "ensured", r |-> r,
                   again |-> ensureIgnoreScripts(r.pmCommand)]
  /\ UNCHANGED pureIn
  /\ UNCHANGED procVars

NextIgnore == EnsureTwice

SpecIgnore == InitIgnore /\ [][NextIgnore]_vars

\* C13: ensureIgnoreScripts returns the command unchanged, injected=false,
\* when it is empty, already holds --ignore-scripts, or has no token equal
\* to install, i, add or ci; otherwise the command followed by one
\* --ignore-scripts, injected=true; applied to its own output it returns
\* that output unchanged.
C13_FlagAppendedOnce ==
  pureOut.t = "ensured" =>
    LET unchanged ==
          \/ pureIn = <<>>
          \/ \E i \in 1..Len(pureIn) : pureIn[i] = "--ignore-scripts"
          \/ \A i \in 1..Len(pureIn) : pureIn[i] \notin {"install", "i", "add", "ci"}
    IN /\ unchanged => pureOut.r = [pmCommand |-> pureIn, injected |-> FALSE]
       /\ ~unchanged =>
            pureOut.r = [pmCommand |-> pureIn \o <<"--ignore-scripts">>,
                         injected |-> TRUE]
       /\ pureOut.again = [pmCommand |-> pureOut.r.pmCommand, injected |-> FALSE]

\* an install command got the flag, and kept it unchanged the second time
C13_InstallGotFlag ==
  /\ pureOut.t = "ensured"
  /\ pureIn = <<"npm", "install", "left-pad">>
  /\ pureOut.r.injected
  /\ pureOut.again.pmCommand = <<"npm", "install", "left-pad", "--ignore-scripts">>

\* ------------------------------------------------------------------ runPreflight
\* One preflight run of the command line tool. Its state is pureOut =
\* [t |-> "preflight", pc, pmCommand, steps, files, code, ret]: where the run
\* stands, the steps taken so far, the files written, the exit code of the
\* install and what runPreflight returned ("none" while it runs).

ExitCodes == {0, 1, 127}

InitPreflight ==
  /\ cfg = PureCfg
  /\ Idle
  /\ pureIn \in {[t |-> "cmd", cmd |-> c] : c \in CmdsUpTo(2)}
  /\ pureOut = Undef

\* if (!cmd.length) die(...); ensureDirForFile(outputPath);
\* const { pmCommand } = ensureIgnoreScripts(cmd)
PfStart ==
  /\ pureOut = Undef
  /\ pureOut' =
       IF Len(pureIn.cmd) = 0
       THEN [t |-> "preflight", pc |-> "done", pmCommand |-> <<>>,
             steps |-> <<"die">>, files |-> {}, code |-> -1, ret |-> 2]
       ELSE [t |-> "preflight", pc |-> "install",
             pmCommand |-> ensureIgnoreScripts(pureIn.cmd).pmCommand,
             steps |-> <<"spawn">>, files |-> {}, code |-> -1, ret |-> "none"]
  /\ UNCHANGED pureIn
  /\ UNCHANGED procVars

\* const code = await runPreflightInstall(pmCommand, cwd);
\* if (code !== 0) return code
PfInstallExits(code) ==
  /\ pureOut.t = "preflight" /\ pureOut.pc = "install"
  /\ pureOut' = [pureOut EXCEPT !.code = code,
                                !.steps = Append(@, "installExited"),
                                !.pc = IF code # 0 THEN "done" ELSE "scan",
                                !.ret = IF code # 0 THEN code ELSE "none"]
  /\ UNCHANGED pureIn
  /\ UNCHANGED procVars

\* const report = scanNodeModulesForScripts(projectRoot, ...)
PfScan ==
  /\ pureOut.t = "preflight" /\ pureOut.pc = "scan"
  /\ pureOut' = [pureOut EXCEPT !.steps = Append(@, "scan"), !.pc = "writeJson"]
  /\ UNCHANGED pureIn
  /\ UNCHANGED procVars

\* await Deno.writeTextFile(outputPath, JSON.stringify(report, null, 2))
PfWriteJson ==
  /\ pureOut.t = "preflight" /\ pureOut.pc = "writeJson"
  /\ pureOut' = [pureOut EXCEPT !.steps = Append(@, "writeJson"),
                                !.files = @ \cup {"json"}, !.pc = "writeCsv"]
  /\ UNCHANGED pureIn
  /\ UNCHANGED procVars

\* await Deno.writeTextFile(csvPath, formatPreflightCsv(report)); ...; return 0
PfWriteCsv ==
  /\ pureOut.t = "preflight" /\ pureOut.pc = "writeCsv"
  /\ pureOut' = [pureOut EXCEPT !.steps = Append(@, "writeCsv"),
                                !.files = @ \cup {"csv"}, !.pc = "done",
                                !.ret = 0]
  /\ UNCHANGED pureIn
  /\ UNCHANGED procVars

NextPreflight ==
  \/ PfStart
  \/ \E code \in ExitCodes : PfInstallExits(code)
  \/ PfScan
  \/ PfWriteJson
  \/ PfWriteCsv

SpecPreflight == InitPreflight /\ [][NextPreflight]_vars

\* C14: in a preflight run given a non-empty command, scanning starts only
\* after the install has exited, and the run ends, for every exit code of
\* the install, with the JSON report and the sibling CSV written.
C14_ReportAlwaysWritten ==
  (pureOut.t = "preflight" /\ Len(pureIn.cmd) > 0) =>
    /\ \A i \in 1..Len(pureOut.steps) :
         pureOut.steps[i] = "scan" =>
           \E j \in 1..(i - 1) : pureOut.steps[j] = "installExited"
    /\ pureOut.pc = "done" => pureOut.files = {"json", "csv"}

\* ------------------------------------------------------- preflight scanner
\* The file system under <cwd>/node_modules. A directory is
\* [isDirectory, readable, entries]: what statSync(..).isDirectory says of
\* its path (FALSE also when statSync throws), whether readDirSync succeeds,
\* and its entries. An entry is [name, ord, isDirectory, kids, file]: its
\* name (tokens), the rank of its name among its siblings under
\* localeCompare, DirEntry.isDirectory (FALSE for files and symbolic links),
\* the directory the code lists beneath it (the entry itself for a scope and
\* for .pnpm, <entry>/node_modules for a store entry), and the file at
\* <entry>/package.json. A file is [isFile, readable, parses, data].

Dir(entries) == [isDirectory |-> TRUE, readable |-> TRUE, entries |-> entries]
NoDir == [isDirectory |-> FALSE, readable |-> FALSE, entries |-> {}]
UnreadableDir == [isDirectory |-> TRUE, readable |-> FALSE, entries |-> {}]

NoFile == [isFile |-> FALSE, readable |-> FALSE, parses |-> FALSE, data |-> Undef]
UnreadableFile == [isFile |-> TRUE, readable |-> FALSE, parses |-> FALSE, data |-> Undef]
BadJson == [isFile |-> TRUE, readable |-> TRUE, parses |-> FALSE, data |-> Undef]
Json(data) == [isFile |-> TRUE, readable |-> TRUE, parses |-> TRUE, data |-> data]

DirEnt(name, ord, kids, file) ==
  [name |-> name, ord |-> ord, isDirectory |-> TRUE, kids |-> kids, file |-> file]
FileEnt(name, ord) ==
  [name |-> name, ord |-> ord, isDirectory |-> FALSE, kids |-> NoDir, file |-> NoFile]

\* JSON values of a manifest: an object with the three fields the scanner
\* reads, or another value. A name is a string given by its tokens; a script
\* text is a string of len characters of which pad are leading or trailing
\* white space.
Manifest(name, version, scripts) ==
  [t |-> "manifest", name |-> name, version |-> version, scripts |-> scripts]
NameStr(tokens) == [t |-> "name", v |-> tokens]
ScriptText(id, len, pad) ==
  [t |-> "str", id |-> id, len |-> len, ell |-> FALSE, pad |-> pad]
Scripts(props) == [t |-> "obj", props |-> props]
False == [t |-> "bool", v |-> FALSE]

\* !v
Falsy(v) ==
  \/ v.t \in {"null", "undef"}
  \/ v.t = "bool" /\ ~v.v
  \/ v.t = "str" /\ v.len = 0

\* v.trim()
Trim(v) == [v EXCEPT !.len = v.len - v.pad, !.pad = 0]

\* entries sorted by (a, b) => a.name.localeCompare(b.name)
RECURSIVE SortByName(_)
SortByName(S) ==
  IF S = {} THEN <<>>
  ELSE LET e == CHOOSE x \in S : \A y \in S : x.ord <= y.ord
       IN <<e>> \o SortByName(S \ {e})

\* join(dir, "package.json") together with the file found there
PkgJson(dir, file) == [dir |-> dir, file |-> file]

safeReadJson_EmptyOnFailure(file) ==
  IF file.readable /\ file.parses THEN file.data ELSE Arr(<<>>)

safeReadJson(file) ==
  IF file.readable /\ file.parses THEN file.data ELSE Null

SCRIPT_MAX == 1000

pickScripts_AnyKey(scripts, keys) ==
  IF Falsy(scripts) \/ scripts.t # "obj" THEN << >>
  ELSE LET picked == {k \in DOMAIN scripts.props :
                        /\ scripts.props[k].t = "str"
                        /\ ~Falsy(Trim(scripts.props[k]))}
       IN [k \in picked |-> truncateString(Trim(scripts.props[k]), SCRIPT_MAX)]

pickScripts(scripts, keys) ==
  IF Falsy(scripts) \/ scripts.t # "obj" THEN << >>
  ELSE LET picked == {k \in {keys[i] : i \in 1..Len(keys)} :
                        /\ k \in DOMAIN scripts.props
                        /\ scripts.props[k].t = "str"
                        /\ ~Falsy(Trim(scripts.props[k]))}
       IN [k \in picked |-> truncateString(Trim(scripts.props[k]), SCRIPT_MAX)]

\* the inner loop of listNpmStylePackageJsonPaths over a scope's entries
RECURSIVE ScopedLoop(_, _, _, _, _)
ScopedLoop(scopedEntries, i, out, max, full) ==
  IF i > Len(scopedEntries) \/ Len(out) >= max THEN out
  ELSE LET se == scopedEntries[i]
       IN IF ~se.isDirectory
          THEN ScopedLoop(scopedEntries, i + 1, out, max, full)
          ELSE ScopedLoop(scopedEntries, i + 1,
                          Append(out, PkgJson(Append(full, se.name), se.file)),
                          max, full)

\* the outer loop of listNpmStylePackageJsonPaths
RECURSIVE NpmLoop(_, _, _, _, _)
NpmLoop(entries, i, out, max, nodeModulesRoot) ==
  IF i > Len(entries) \/ Len(out) >= max THEN out
  ELSE LET e == entries[i]
           full == Append(nodeModulesRoot, e.name)
       IN IF ~e.isDirectory
          THEN NpmLoop(entries, i + 1, out, max, nodeModulesRoot)
          ELSE IF e.name = <<".bin">> \/ e.name = <<".pnpm">>
          THEN NpmLoop(entries, i + 1, out, max, nodeModulesRoot)
          ELSE IF StartsWith(e.name, <<"@">>)
          THEN NpmLoop(entries, i + 1,
                       IF e.kids.readable
                       THEN ScopedLoop(SortByName(e.kids.entries), 1, out, max, full)
                       ELSE out,
                       max, nodeModulesRoot)
          ELSE NpmLoop(entries, i + 1, Append(out, PkgJson(full, e.file)),
                       max, nodeModulesRoot)

\* dir is the directory at the path nodeModulesRoot
listNpmStylePackageJsonPaths(dir, nodeModulesRoot, max) ==
  IF ~dir.isDirectory THEN <<>>
  ELSE IF ~dir.readable THEN <<>>
  ELSE NpmLoop(SortByName(dir.entries), 1, <<>>, max, nodeModulesRoot)

RECURSIVE PnpmLoop(_, _, _, _, _)
PnpmLoop(storeEntries, i, out, max, pnpmRoot) ==
  IF i > Len(storeEntries) \/ Len(out) >= max THEN out
  ELSE LET storeEntry == storeEntries[i]
           nm == pnpmRoot \o <<storeEntry.name, <<"node_modules">>>>
           paths == listNpmStylePackageJsonPaths(storeEntry.kids, nm, max - Len(out))
       IN IF ~storeEntry.isDirectory
          THEN PnpmLoop(storeEntries, i + 1, out, max, pnpmRoot)
          ELSE PnpmLoop(storeEntries, i + 1, out \o Take(paths, max - Len(out)),
                        max, pnpmRoot)

listPnpmStylePackageJsonPaths(dir, nodeModulesRoot, max) ==
  LET pnpmRoot == Append(nodeModulesRoot, <<".pnpm">>)
      found == {e \in dir.entries : e.name = <<".pnpm">>}
  IN IF ~dir.isDirectory \/ found = {} THEN <<>>
     ELSE LET pnpm == CHOOSE e \in found : TRUE
          IN IF ~pnpm.isDirectory THEN <<>>
             ELSE IF ~pnpm.kids.readable THEN <<>>
             ELSE PnpmLoop(SortByName(pnpm.kids.entries), 1, <<>>, max, pnpmRoot)

NodeModulesRoot == << <<"node_modules">> >>

\* the paths scanNodeModulesForScripts collects before it scans
pkgJsonPaths_NoSpare(cwd, max) ==
  LET limit == max
      npm == listNpmStylePackageJsonPaths(cwd, NodeModulesRoot, limit)
  IN IF Len(npm) < limit
     THEN npm \o listPnpmStylePackageJsonPaths(cwd, NodeModulesRoot, limit - Len(npm))
     ELSE npm

pkgJsonPaths(cwd, max) ==
  LET limit == max + 1
      npm == listNpmStylePackageJsonPaths(cwd, NodeModulesRoot, limit)
  IN IF Len(npm) < limit
     THEN npm \o listPnpmStylePackageJsonPaths(cwd, NodeModulesRoot, limit - Len(npm))
     ELSE npm

\* data.name, data.version, data.scripts of a parsed value
Field(data, f) == IF data.t = "manifest" THEN data[f] ELSE Undef

\* the loop of scanNodeModulesForScripts over toScan; acc is
\* [packages, parseErrors]
RECURSIVE ScanLoop(_, _, _, _)
ScanLoop(toScan, i, acc, opts) ==
  IF i > Len(toScan) THEN acc
  ELSE LET p == toScan[i]
           data == safeReadJson(p.file)
           name == Field(data, "name")
           rawName == IF name.t = "name" THEN name.v ELSE p.dir[Len(p.dir)]
           ver == Field(data, "version")
           version == IF ver.t = "str" THEN ver ELSE Str("", 0)
           scripts == pickScripts(Field(data, "scripts"), opts.scriptKeys)
           display == classifyPackageDisplayName(rawName)
       IN IF ~p.file.isFile THEN ScanLoop(toScan, i + 1, acc, opts)
          ELSE IF Falsy(data)
          THEN ScanLoop(toScan, i + 1,
                        [acc EXCEPT !.parseErrors = @ + 1], opts)
          ELSE IF DOMAIN scripts = {} THEN ScanLoop(toScan, i + 1, acc, opts)
          ELSE IF /\ ~opts.includePm
                  /\ \/ isPmPackageName(rawName) # "none"
                     \/ StartsWith(display, <<"<pm:">>)
          THEN ScanLoop(toScan, i + 1, acc, opts)
          ELSE ScanLoop(toScan, i + 1,
                        [acc EXCEPT !.packages =
                           Append(@, [name |-> display, version |-> version,
                                      path |-> p.dir, scripts |-> scripts])],
                        opts)

\* the report built from the collected paths
ReportOf(paths, opts) ==
  LET max == opts.maxPackages
      toScan == Take(paths, max)
      acc == ScanLoop(toScan, 1, [packages |-> <<>>, parseErrors |-> 0], opts)
  IN [totalPackagesScanned |-> Len(toScan),
      packagesWithScripts |-> Len(acc.packages),
      scriptKeys |-> opts.scriptKeys,
      packages |-> acc.packages,
      parseErrors |-> acc.parseErrors,
      truncated |-> Len(paths) > max]

\* cwd is given by the directory at <cwd>/node_modules
scanNodeModulesForScripts(cwd, opts) ==
  ReportOf(pkgJsonPaths(cwd, opts.maxPackages), opts)

\* --------------------------------------------------- SpecScan: one scan
\* Entries of <cwd>/node_modules per tree, and the largest maxPackages.
MaxEntries == 3
MaxMaxPackages == 3

M_a ==
  Json(Manifest(NameStr(<<"a">>), Str("1.0.0", 5),
                Scripts([install |-> ScriptText("node a.js", 9, 0),
                         test |-> ScriptText("jest", 4, 0)])))
M_npm ==
  Json(Manifest(NameStr(<<"npm">>), Str("10.0.0", 6),
                Scripts([postinstall |-> ScriptText("echo hi", 7, 0)])))
M_npmcli ==
  Json(Manifest(NameStr(<<"@", "npmcli", "/", "foo">>), Str("0.0.0", 5),
                Scripts([install |-> ScriptText("echo hi", 7, 0)])))
M_scoped ==
  Json(Manifest(NameStr(<<"@", "s", "/", "c">>), Str("1.2.3", 5),
                Scripts([postinstall |-> ScriptText("echo post", 9, 0),
                         prepare |-> ScriptText("echo prep", SCRIPT_MAX + 2, 2)])))
\* no name; one script longer than the cap once trimmed, one blank, one not
\* a string
M_q ==
  Json(Manifest(Undef, Undef,
                Scripts([prepare |-> ScriptText("build", SCRIPT_MAX + 3, 2),
                         install |-> ScriptText(" ", 3, 3),
                         postinstall |-> Num])))
M_x ==
  Json(Manifest(NameStr(<<"<pm:", "x>">>), Str("1.0.0", 5),
                Scripts([install |-> ScriptText("node x.js", 9, 0)])))
M_z == Json(Manifest(NameStr(<<"z">>), Str("2.0.0", 5), Str("scripts", 7)))

E_bin == DirEnt(<<".bin">>, 1, NoDir, NoFile)
E_cache == DirEnt(<<".cache">>, 2, NoDir, NoFile)
E_npmcli ==
  DirEnt(<<"@", "npmcli">>, 3, Dir({DirEnt(<<"foo">>, 1, NoDir, M_npmcli)}), NoFile)
E_s ==
  DirEnt(<<"@", "s">>, 4,
         Dir({DirEnt(<<"c">>, 1, NoDir, M_scoped), FileEnt(<<"LICENSE">>, 2)}),
         NoFile)
E_a == DirEnt(<<"a">>, 5, NoDir, M_a)
E_b == DirEnt(<<"b">>, 6, NoDir, BadJson)
E_link == FileEnt(<<"link">>, 7)
E_n == DirEnt(<<"n">>, 8, NoDir, Json(Null))
E_npm == DirEnt(<<"npm">>, 9, NoDir, M_npm)
E_q == DirEnt(<<"q">>, 10, NoDir, M_q)
E_u == DirEnt(<<"u">>, 11, NoDir, UnreadableFile)
E_x == DirEnt(<<"x">>, 12, NoDir, M_x)
E_z == DirEnt(<<"z">>, 13, NoDir, M_z)

FlatPool ==
  {E_bin, E_cache, E_npmcli, E_s, E_a, E_b, E_link, E_n, E_npm, E_q, E_u,
   E_x, E_z}

\* .pnpm/<store entry>/node_modules/...
Store_a ==
  DirEnt(<<"a@1.0.0">>, 2, Dir({E_a, E_bin, FileEnt(<<"dep">>, 6)}), NoFile)
Store_s == DirEnt(<<"@s+c@1.2.3">>, 1, Dir({E_s}), NoFile)
Store_hoist == DirEnt(<<"node_modules">>, 3, NoDir, NoFile)
Pnpm(stores) == DirEnt(<<".pnpm">>, 0, Dir(stores), NoFile)

PnpmVariants ==
  {{}, {FileEnt(<<".pnpm">>, 0)},
   {Pnpm({Store_a, FileEnt(<<"lock.yaml">>, 4)})},
   {Pnpm({Store_s, Store_a, Store_hoist})}}

Trees ==
  {NoDir, UnreadableDir}
    \cup {Dir(S \cup P) : S \in {T \in SUBSET FlatPool : Cardinality(T) <= MaxEntries},
                          P \in PnpmVariants}

ScanOptions ==
  [includePm : BOOLEAN,
   maxPackages : 1..MaxMaxPackages,
   scriptKeys : {<<"install", "postinstall">>,
                 <<"preinstall", "install", "postinstall", "prepare">>}]

InitScan ==
  /\ cfg = PureCfg
  /\ Idle
  /\ pureIn \in [t : {"scan"}, cwd : Trees, opts : ScanOptions]
  /\ pureOut = Undef

ScanNodeModules ==
  /\ pureOut = Undef
  /\ pureOut' = [t |-> "report",
                 paths |-> pkgJsonPaths(pureIn.cwd, pureIn.opts.maxPackages),
                 r |-> scanNodeModulesForScripts(pureIn.cwd, pureIn.opts)]
  /\ UNCHANGED pureIn
  /\ UNCHANGED procVars

NextScan == ScanNodeModules

SpecScan == InitScan /\ [][NextScan]_vars

\* The package directories a listing has to visit, as a set: every
\* directory entry of a readable node_modules other than .bin and .pnpm,
\* and for a scope every directory entry beneath it.
PackageDirsOf(dir, root) ==
  LET es == IF dir.isDirectory /\ dir.readable
            THEN {e \in dir.entries :
                    e.isDirectory /\ e.name \notin {<<".bin">>, <<".pnpm">>}}
            ELSE {}
  IN {PkgJson(Append(root, e.name), e.file) :
        e \in {x \in es : ~StartsWith(x.name, <<"@">>)}}
     \cup UNION {{PkgJson(root \o <<e.name, k.name>>, k.file) :
                    k \in {y \in e.kids.entries : y.isDirectory}} :
                 e \in {x \in es : StartsWith(x.name, <<"@">>) /\ x.kids.readable}}

StoreDirsOf(cwd) ==
  IF ~cwd.isDirectory THEN {}
  ELSE UNION {{s \in p.kids.entries : s.isDirectory} :
              p \in {e \in cwd.entries :
                       e.name = <<".pnpm">> /\ e.isDirectory /\ e.kids.readable}}

FlatDirs(cwd) == PackageDirsOf(cwd, NodeModulesRoot)
ContentAddressedDirs(cwd) ==
  UNION {PackageDirsOf(s.kids,
                       NodeModulesRoot \o << <<".pnpm">>, s.name, <<"node_modules">> >>) :
         s \in StoreDirsOf(cwd)}
AllPackageDirs(cwd) == FlatDirs(cwd) \cup ContentAddressedDirs(cwd)
\* those of them that hold a package.json file
AllManifests(cwd) == {p \in AllPackageDirs(cwd) : p.file.isFile}

PathSet(paths) == {paths[i] : i \in 1..Len(paths)}

\* What C15 says of one scan, "manifests" being counted by n.
CountsAgree(n) ==
  LET max == pureIn.opts.maxPackages
      paths == pureOut.paths
      r == pureOut.r
  IN /\ Len(paths) <= max + 1
     /\ Cardinality(PathSet(paths)) = Len(paths)
     /\ PathSet(paths) \subseteq AllPackageDirs(pureIn.cwd)
     /\ \A i, j \in 1..Len(paths) :
          paths[i] \in FlatDirs(pureIn.cwd) /\ paths[j] \notin FlatDirs(pureIn.cwd)
            => i < j
     /\ (\E i \in 1..Len(paths) : paths[i] \notin FlatDirs(pureIn.cwd))
          => FlatDirs(pureIn.cwd) \subseteq PathSet(paths)
     /\ r.truncated <=> n > max
     /\ r.totalPackagesScanned = Min(n, max)
     /\ n > max => r.totalPackagesScanned = max
     /\ r.packagesWithScripts + r.parseErrors <= r.totalPackagesScanned

\* C15 as stated: for every node_modules tree and every maxPackages >= 1 the
\* scan collects at most maxPackages+1 manifest paths, flat layout first,
\* reports truncated exactly when more than maxPackages manifests exist and
\* totalPackagesScanned as the smaller of the number of manifests and
\* maxPackages, and packagesWithScripts + parseErrors never exceeds
\* totalPackagesScanned -- the manifests being the package.json files.
C15_CountsManifestFiles ==
  pureOut.t = "report" => CountsAgree(Cardinality(AllManifests(pureIn.cwd)))

\* C15 amended: the same, counting the package directories the two layouts
\* hold, whether or not a package.json file lies in them.
C15_CountsPackageDirs ==
  pureOut.t = "report" => CountsAgree(Cardinality(AllPackageDirs(pureIn.cwd)))

\* more package directories than maxPackages: truncated, maxPackages scanned
C15_TruncatedScan ==
  /\ pureOut.t = "report"
  /\ pureIn.opts.maxPackages = 2
  /\ Cardinality(AllPackageDirs(pureIn.cwd)) = 3
  /\ ContentAddressedDirs(pureIn.cwd) # {}
  /\ pureOut.r.truncated
  /\ pureOut.r.totalPackagesScanned = 2

\* the paths of one scan that were scanned
ToScan == Take(pureOut.paths, pureIn.opts.maxPackages)
\* a package.json file that cannot be read or is not JSON
FailsToParse(file) == file.isFile /\ ~(file.readable /\ file.parses)
\* a package.json file holding JSON whose value is null, false or ""
ParsesToFalsy(file) == file.isFile /\ file.readable /\ file.parses /\ Falsy(file.data)
\* the same paths, the i-th package.json being absent
Without(paths, i) == [paths EXCEPT ![i].file = NoFile]

\* What C16 says of one scan, counted(file) saying which package.json files
\* parseErrors counts.
ScanTolerates(counted(_)) ==
  LET r == pureOut.r
      toScan == ToScan
  IN /\ (~pureIn.cwd.isDirectory \/ ~pureIn.cwd.readable)
          => r.packagesWithScripts = 0 /\ r.packages = <<>>
     /\ \A i \in 1..Len(toScan) :
          FailsToParse(toScan[i].file) =>
            LET absent == ReportOf(Without(pureOut.paths, i), pureIn.opts)
            IN /\ r.parseErrors = absent.parseErrors + 1
               /\ r.packages = absent.packages
     /\ r.parseErrors =
          Cardinality({i \in 1..Len(toScan) : counted(toScan[i].file)})

\* C16 as stated: the scan always yields a report; a missing or unreadable
\* node_modules yields no packages; each scanned manifest that cannot be
\* parsed adds exactly one to parseErrors and leaves the packages as they
\* would be without it; parseErrors counts only manifests that failed to
\* parse.
C16_CountsOnlyParseFailures ==
  pureOut.t = "report" => ScanTolerates(FailsToParse)

\* C16 amended: parseErrors counts the scanned manifests that failed to
\* parse and those whose JSON value is falsy.
C16_CountsFailuresAndFalsy ==
  pureOut.t = "report" =>
    ScanTolerates(LAMBDA f : FailsToParse(f) \/ ParsesToFalsy(f))

\* two unparsable manifests counted, and a package listed all the same
C16_ScanWentOn ==
  /\ pureOut.t = "report"
  /\ \E i \in 1..Len(ToScan) : ToScan[i].file = BadJson
  /\ \E i \in 1..Len(ToScan) : ToScan[i].file = UnreadableFile
  /\ pureOut.r.parseErrors = 2
  /\ pureOut.r.packagesWithScripts = 1

\* k is a non-blank string script of the manifest in file
IsScriptOf(file, k) ==
  /\ file.isFile /\ file.readable /\ file.parses
  /\ file.data.t = "manifest"
  /\ file.data.scripts.t = "obj"
  /\ k \in DOMAIN file.data.scripts.props
  /\ file.data.scripts.props[k].t = "str"
  /\ file.data.scripts.props[k].len > file.data.scripts.props[k].pad

\* the name of the package at a scanned path: the manifest's name when it
\* is a string, else the name of the directory
NameAt(p) ==
  IF p.file.data.t = "manifest" /\ p.file.data.name.t = "name"
  THEN p.file.data.name.v
  ELSE p.dir[Len(p.dir)]

NpmOrPnpmName(n) ==
  \/ n \in {<<"npm">>, <<"pnpm">>}
  \/ Len(n) >= 3 /\ n[1] = "@" /\ n[2] \in {"npmcli", "pnpm"} /\ n[3] = "/"

\* What C17 says of one scan, hidden(n) saying which names are left out
\* when includePm is false.
ListsScripts(hidden(_)) ==
  LET r == pureOut.r
      toScan == ToScan
      keys == {pureIn.opts.scriptKeys[i] : i \in 1..Len(pureIn.opts.scriptKeys)}
      Listed(p) == \E j \in 1..Len(r.packages) : r.packages[j].path = p.dir
  IN /\ r.packagesWithScripts = Len(r.packages)
     /\ \A j \in 1..Len(r.packages) :
          LET pkg == r.packages[j]
          IN /\ DOMAIN pkg.scripts # {}
             /\ \E i \in 1..Len(toScan) :
                  /\ toScan[i].dir = pkg.path
                  /\ \A k \in DOMAIN pkg.scripts :
                       /\ k \in keys
                       /\ IsScriptOf(toScan[i].file, k)
                       /\ LET v == toScan[i].file.data.scripts.props[k]
                              n == v.len - v.pad
                          IN /\ pkg.scripts[k].id = v.id
                             /\ pkg.scripts[k].len = Min(n, SCRIPT_MAX)
                             /\ pkg.scripts[k].ell <=> n > SCRIPT_MAX
     /\ \A i \in 1..Len(toScan) :
          (\E k \in keys : IsScriptOf(toScan[i].file, k)) =>
            (Listed(toScan[i]) <=>
               ~(~pureIn.opts.includePm /\ hidden(NameAt(toScan[i]))))

\* C17 as stated: each listed package has at least one script, each listed
\* script key is a requested key and a non-blank string script of the
\* manifest, trimmed and truncated to 1000 characters; packagesWithScripts
\* is the number of listed packages; a scanned manifest with such a script
\* is listed unless includePm is false and its name is npm, pnpm, @npmcli/*
\* or @pnpm/*, and then it is not listed.
C17_HidesNpmAndPnpm ==
  pureOut.t = "report" => ListsScripts(NpmOrPnpmName)

\* C17 amended: with includePm false a name that begins with <pm: is left
\* out as well.
C17_HidesPmNames ==
  pureOut.t = "report" =>
    ListsScripts(LAMBDA n : NpmOrPnpmName(n) \/ n[1] = "<pm:")

\* includePm false: npm scanned and left out, q listed with its one
\* requested non-blank script cut to 1000 characters
C17_ListedAndHidden ==
  /\ pureOut.t = "report"
  /\ ~pureIn.opts.includePm
  /\ \E i \in 1..Len(ToScan) : ToScan[i].file = M_npm
  /\ pureOut.r.packagesWithScripts = 1
  /\ pureOut.r.packages[1].name = <<"q">>
  /\ DOMAIN pureOut.r.packages[1].scripts = {"prepare"}
  /\ pureOut.r.packages[1].scripts["prepare"].ell

\* ------------------------------------------------------------- aggregator
\* A Map is the sequence of its entries [key, count] in insertion order; a
\* Map of Maps is the sequence of [key, inner]. A line of the log is blank,
\* text that JSON.parse rejects, or JSON: null, another value that is not
\* an object, or an event object. An event is [pkg, category, op, key]:
\* pkg is [str, v] (str FALSE when evt.pkg is not a string), and key is
\* what the category's branch extracts from evt.args -- args.path for a
\* write, the normalised host or command otherwise -- "" when it extracts
\* nothing.

IndexOfKey(map, key) ==
  IF \E i \in 1..Len(map) : map[i].key = key
  THEN CHOOSE i \in 1..Len(map) : map[i].key = key
  ELSE 0

incMap(map, key) ==
  LET i == IndexOfKey(map, key)
  IN IF i = 0 THEN Append(map, [key |-> key, count |-> 1])
     ELSE [map EXCEPT ![i].count = @ + 1]

incNestedMap(map, outerKey, innerKey) ==
  LET i == IndexOfKey(map, outerKey)
  IN IF i = 0
     THEN Append(map, [key |-> outerKey, inner |-> incMap(<<>>, innerKey)])
     ELSE [map EXCEPT ![i].inner = incMap(@, innerKey)]

\* entries.sort((a, b) => b[1] - a[1]): a stable sort by falling count
RECURSIVE InsertByCount(_, _)
InsertByCount(sorted, e) ==
  IF sorted = <<>> THEN <<e>>
  ELSE IF sorted[Len(sorted)].count >= e.count THEN Append(sorted, e)
  ELSE Append(InsertByCount(SubSeq(sorted, 1, Len(sorted) - 1), e),
              sorted[Len(sorted)])

RECURSIVE SortByCount(_)
SortByCount(entries) ==
  IF entries = <<>> THEN <<>>
  ELSE InsertByCount(SortByCount(SubSeq(entries, 1, Len(entries) - 1)),
                     entries[Len(entries)])

topN_KeepsAll(map, n) == SortByCount(map)

topN(map, n) == Take(SortByCount(map), n)

topNDetails(counts, pkgCounts, n, packagesTopN) ==
  LET items == topN(counts, n)
  IN [j \in 1..Len(items) |->
        LET i == IndexOfKey(pkgCounts, items[j].key)
            inner == IF i = 0 THEN <<>> ELSE pkgCounts[i].inner
            top == topN(inner, packagesTopN)
        IN [key |-> items[j].key, count |-> items[j].count,
            packages |-> [k \in 1..Len(top) |->
                            [pkg |-> top[k].key, count |-> top[k].count]]]]

TOP_N == 10
TOP_PACKAGES == 3

Blank == [t |-> "blank"]
Garbage == [t |-> "garbage"]
Scalar == [t |-> "scalar"]
Event(pkg, category, op, key) ==
  [t |-> "event", pkg |-> pkg, category |-> category, op |-> op, key |-> key]

\* An op label cut into the pieces the two patterns below look at; any other
\* label is one piece.
OpPieces(op) ==
  CASE op = "fs.readFileSync" -> <<"fs", ".", "read", "FileSync">>
    [] op = "fs.readdirSync" -> <<"fs", ".", "read", "dirSync">>
    [] op = "fs.createReadStream" -> <<"fs", ".", "createReadStream">>
    [] op = "fs.promises.readFile" -> <<"fs", ".", "promises", ".", "read", "File">>
    [] op = "fs.writeFileSync" -> <<"fs", ".", "write", "FileSync">>
    [] op = "fs.appendFileSync" -> <<"fs", ".", "append", "FileSync">>
    [] op = "fs.createWriteStream" -> <<"fs", ".", "createWriteStream">>
    [] op = "fs.promises.writeFile" -> <<"fs", ".", "promises", ".", "write", "File">>
    [] op = "fs.promises.appendFile" -> <<"fs", ".", "promises", ".", "append", "File">>
    [] op = "fs.read.createWriteStream" ->
         <<"fs", ".", "read", ".", "createWriteStream">>
    [] op = "fs.mkdirSync" -> <<"fs", ".", "mkdirSync">>
    [] op = "" -> <<>>
    [] OTHER -> <<op>>

isFsReadOp(op) ==
  \/ StartsWith(OpPieces(op), <<"fs", ".", "read">>)
  \/ Contains(OpPieces(op), <<".", "createReadStream">>)
  \/ Contains(OpPieces(op), <<"fs", ".", "promises", ".", "read">>)

isFsWriteOp_NoAppend(op) ==
  \/ StartsWith(OpPieces(op), <<"fs", ".", "write">>)
  \/ Contains(OpPieces(op), <<".", "createWriteStream">>)
  \/ Contains(OpPieces(op), <<"fs", ".", "promises", ".", "write">>)

isFsWriteOp(op) ==
  \/ StartsWith(OpPieces(op), <<"fs", ".", "write">>)
  \/ StartsWith(OpPieces(op), <<"fs", ".", "append">>)
  \/ Contains(OpPieces(op), <<".", "createWriteStream">>)
  \/ Contains(OpPieces(op), <<"fs", ".", "promises", ".", "write">>)
  \/ Contains(OpPieces(op), <<"fs", ".", "promises", ".", "append">>)

emptyCounts == [fs_read |-> 0, fs_write |-> 0, proc |-> 0, dns |-> 0, net |-> 0]

EmptyAgg ==
  [threw |-> FALSE, totalEvents |-> 0, byPackage |-> << >>,
   hosts |-> <<>>, commands |-> <<>>, writePaths |-> <<>>,
   writePathPkgs |-> <<>>, procCommandPkgs |-> <<>>, dnsHosts |-> <<>>,
   dnsHostPkgs |-> <<>>, netHostPkgs |-> <<>>]

\* one iteration of the loop over the lines
AggLine(agg, line) ==
  IF line.t \in {"blank", "garbage"} THEN agg
  ELSE IF line.t = "null"
  THEN [agg EXCEPT !.totalEvents = @ + 1, !.threw = TRUE]
  ELSE
    LET pkg == IF line.t = "event" /\ line.pkg.str THEN line.pkg.v
               ELSE "<unknown>"
        op == IF line.t = "event" THEN line.op ELSE ""
        category == IF line.t = "event" THEN line.category ELSE ""
        key == IF line.t = "event" THEN line.key ELSE ""
        old == IF pkg \in DOMAIN agg.byPackage THEN agg.byPackage[pkg]
               ELSE emptyCounts
        counts ==
          IF category = "fs"
          THEN IF isFsReadOp(op) THEN [old EXCEPT !.fs_read = @ + 1]
               ELSE IF isFsWriteOp(op) THEN [old EXCEPT !.fs_write = @ + 1]
               ELSE [old EXCEPT !.fs_read = @ + 1]
          ELSE IF category = "proc" THEN [old EXCEPT !.proc = @ + 1]
          ELSE IF category = "dns" THEN [old EXCEPT !.dns = @ + 1]
          ELSE IF category = "net" THEN [old EXCEPT !.net = @ + 1]
          ELSE old
        write == category = "fs" /\ isFsWriteOp(op) /\ key # ""
        net == category = "net" /\ key # ""
        proc == category = "proc" /\ key # ""
        dns == category = "dns" /\ key # ""
    IN [agg EXCEPT
          !.totalEvents = @ + 1,
          !.byPackage = [q \in DOMAIN agg.byPackage \cup {pkg} |->
                           IF q = pkg THEN counts ELSE agg.byPackage[q]],
          !.writePaths = IF write THEN incMap(@, key) ELSE @,
          !.writePathPkgs = IF write THEN incNestedMap(@, key, pkg) ELSE @,
          !.hosts = IF net THEN incMap(@, key) ELSE @,
          !.netHostPkgs = IF net THEN incNestedMap(@, key, pkg) ELSE @,
          !.commands = IF proc THEN incMap(@, key) ELSE @,
          !.procCommandPkgs = IF proc THEN incNestedMap(@, key, pkg) ELSE @,
          !.dnsHosts = IF dns THEN incMap(@, key) ELSE @,
          !.dnsHostPkgs = IF dns THEN incNestedMap(@, key, pkg) ELSE @]

RECURSIVE AggLines(_, _, _)
AggLines(lines, i, agg) ==
  IF i > Len(lines) \/ agg.threw THEN agg
  ELSE AggLines(lines, i + 1, AggLine(agg, lines[i]))

\* the summary, or [t |-> "throw"] when the returned promise is rejected
summarizeJsonl(lines) ==
  LET agg == AggLines(lines, 1, EmptyAgg)
  IN IF agg.threw THEN Throw
     ELSE [t |-> "summary",
           totalEvents |-> agg.totalEvents,
           byPackage |-> agg.byPackage,
           rootByPackage |-> [q \in DOMAIN agg.byPackage |-> Null],
           topHosts |-> topN(agg.hosts, TOP_N),
           topCommands |-> topN(agg.commands, TOP_N),
           topWritePaths |->
             topNDetails(agg.writePaths, agg.writePathPkgs, TOP_N, TOP_PACKAGES),
           topProcCommands |->
             topNDetails(agg.commands, agg.procCommandPkgs, TOP_N, TOP_PACKAGES),
           topDnsHosts |->
             topNDetails(agg.dnsHosts, agg.dnsHostPkgs, TOP_N, TOP_PACKAGES),
           topNetHosts |->
             topNDetails(agg.hosts, agg.netHostPkgs, TOP_N, TOP_PACKAGES)]

\* ------------------------------------------- SpecSummary: one log summarised
\* Lines of a log after its opening block.
MaxTail == 3

PathNames ==
  <<"/tmp/k01", "/tmp/k02", "/tmp/k03", "/tmp/k04", "/tmp/k05", "/tmp/k06",
    "/tmp/k07", "/tmp/k08", "/tmp/k09", "/tmp/k10", "/tmp/k11", "/tmp/k12">>

PkgName(v) == [str |-> TRUE, v |-> v]
WriteOf(pkg, i) == Event(PkgName(pkg), "fs", "fs.writeFileSync", PathNames[i])

\* an opening block: one write by package z to each of the first n paths
OpeningBlock(n) == [i \in 1..n |-> WriteOf("z", i)]

TailLines ==
  {WriteOf("a", 1), WriteOf("b", 1), WriteOf("c", 1), WriteOf("a", 11),
   WriteOf("b", 12),
   Event(PkgName("a"), "proc", "child_process.spawnSync", "node -e x"),
   Event([str |-> FALSE, v |-> ""], "dns", "dns.lookup", "example.com"),
   Event(PkgName("b"), "net", "http.get", "registry.npmjs.org"),
   Event(PkgName("a"), "fs", "fs.mkdirSync", "/tmp/d"),
   Blank, Garbage, Null, Scalar}

RECURSIVE TailsUpTo(_)
TailsUpTo(n) ==
  IF n = 0 THEN {<<>>}
  ELSE TailsUpTo(n - 1)
       \cup {Append(s, l) : s \in {x \in TailsUpTo(n - 1) : Len(x) = n - 1},
                            l \in TailLines}

Logs ==
  {OpeningBlock(n) \o tail : n \in {0, TOP_N - 1, TOP_N + 1},
                             tail \in TailsUpTo(MaxTail)}

InitSummary ==
  /\ cfg = PureCfg
  /\ Idle
  /\ pureIn \in Logs
  /\ pureOut = Undef

Summarize ==
  /\ pureOut = Undef
  /\ pureOut' = summarizeJsonl(pureIn)
  /\ UNCHANGED pureIn
  /\ UNCHANGED procVars

NextSummary == Summarize

SpecSummary == InitSummary /\ [][NextSummary]_vars

\* The records of a log that contribute to a detail table, in log order,
\* as [key, pkg].
RecordPkg(l) == IF l.pkg.str THEN l.pkg.v ELSE "<unknown>"
Contributes(l, table) ==
  /\ l.t = "event"
  /\ l.key # ""
  /\ \/ table = "topWritePaths" /\ l.category = "fs" /\ isFsWriteOp(l.op)
     \/ table = "topProcCommands" /\ l.category = "proc"
     \/ table = "topDnsHosts" /\ l.category = "dns"
     \/ table = "topNetHosts" /\ l.category = "net"
DetailTables == {"topWritePaths", "topProcCommands", "topDnsHosts", "topNetHosts"}

CountOf(log, table, key) ==
  Cardinality({i \in 1..Len(log) : Contributes(log[i], table) /\ log[i].key = key})
CountOfPkg(log, table, key, pkg) ==
  Cardinality({i \in 1..Len(log) :
                 /\ Contributes(log[i], table) /\ log[i].key = key
                 /\ RecordPkg(log[i]) = pkg})
FirstOf(log, table, key) ==
  CHOOSE i \in 1..Len(log) :
    /\ Contributes(log[i], table) /\ log[i].key = key
    /\ \A j \in 1..(i - 1) : ~(Contributes(log[j], table) /\ log[j].key = key)
KeysOf(log, table) ==
  {log[i].key : i \in {j \in 1..Len(log) : Contributes(log[j], table)}}
PkgsOf(log, table, key) ==
  {RecordPkg(log[i]) :
     i \in {j \in 1..Len(log) : Contributes(log[j], table) /\ log[j].key = key}}

RECURSIVE SumCounts(_)
SumCounts(s) == IF s = <<>> THEN 0 ELSE s[1].count + SumCounts(Tail(s))

TableAsClaimed(log, table, T) ==
  /\ Len(T) = Min(TOP_N, Cardinality(KeysOf(log, table)))
  /\ \A i \in 1..Len(T) :
       /\ T[i].key \in KeysOf(log, table)
       /\ T[i].count = CountOf(log, table, T[i].key)
       /\ \A k \in KeysOf(log, table) \ {T[j].key : j \in 1..Len(T)} :
            CountOf(log, table, k) <= T[i].count
  /\ \A i, j \in 1..Len(T) :
       i < j =>
         /\ T[i].key # T[j].key
         /\ T[i].count >= T[j].count
         /\ T[i].count = T[j].count =>
              FirstOf(log, table, T[i].key) < FirstOf(log, table, T[j].key)
  /\ \A i \in 1..Len(T) :
       LET P == T[i].packages
           all == PkgsOf(log, table, T[i].key)
       IN /\ Len(P) = Min(TOP_PACKAGES, Cardinality(all))
          /\ \A a \in 1..Len(P) :
               /\ P[a].pkg \in all
               /\ P[a].count = CountOfPkg(log, table, T[i].key, P[a].pkg)
               /\ \A q \in all \ {P[b].pkg : b \in 1..Len(P)} :
                    CountOfPkg(log, table, T[i].key, q) <= P[a].count
          /\ \A a, b \in 1..Len(P) :
               a < b => P[a].pkg # P[b].pkg /\ P[a].count >= P[b].count
          /\ SumCounts(P) <= T[i].count
          /\ Cardinality(all) <= TOP_PACKAGES => SumCounts(P) = T[i].count

\* C18: each of the four detail tables holds at most 10 entries, the keys
\* with the highest counts in non-increasing order of count, equal counts in
\* the order of first occurrence in the log; each entry's count is the
\* number of records that contributed that key; its packages are at most 3,
\* those with the highest per-package counts in non-increasing order, their
\* counts summing to at most the entry's count, and to exactly that count
\* when at most 3 packages contributed.
C18_DetailTablesRanked ==
  pureOut.t = "summary" =>
    \A table \in DetailTables : TableAsClaimed(pureIn, table, pureOut[table])

\* eleven paths written, one of them by four packages: ten entries, the
\* first with three packages whose counts sum to less than its count
C18_TablesCutToTenAndThree ==
  /\ pureOut.t = "summary"
  /\ Cardinality(KeysOf(pureIn, "topWritePaths")) = TOP_N + 1
  /\ Len(pureOut.topWritePaths) = TOP_N
  /\ pureOut.topWritePaths[1].key = "/tmp/k01"
  /\ pureOut.topWritePaths[1].count = 4
  /\ Len(pureOut.topWritePaths[1].packages) = TOP_PACKAGES
  /\ pureOut.topWritePaths[2].key = "/tmp/k02"

\* the log without its blank lines and its lines that are not records
RecordsOnly(log) == SelectSeq(log, LAMBDA l : l.t = "event")

\* C19: summarizeJsonl completes with a summary for every content of the
\* log: blank lines and lines that are not parseable records are skipped,
\* not counted, and do not abort the aggregation, so the summary equals that
\* of the log without them; a log with no valid record yields totalEvents 0,
\* empty byPackage and rootByPackage, and empty top-N tables.
C19_OtherLinesSkipped ==
  pureOut.t # "undef" =>
    /\ pureOut.t = "summary"
    /\ pureOut = summarizeJsonl(RecordsOnly(pureIn))
    /\ RecordsOnly(pureIn) = <<>> =>
         /\ pureOut.totalEvents = 0
         /\ DOMAIN pureOut.byPackage = {}
         /\ DOMAIN pureOut.rootByPackage = {}
         /\ pureOut.topHosts = <<>> /\ pureOut.topCommands = <<>>
         /\ \A table \in DetailTables : pureOut[table] = <<>>

\* ----------------------------------------------------------- root resolver
\* A manifest value is Pkg(..): its name ([str, v]) and its four dependency
\* fields, each Deps(keys) or Undef when the field is missing or not an
\* object. A manifest file is NoFile, BadJson or Json(value).

Pkg(name, deps, dev, opt, peer) ==
  [t |-> "pkg", name |-> name, dependencies |-> deps, devDependencies |-> dev,
   optionalDependencies |-> opt, peerDependencies |-> peer]

\* k.trim() is empty
IsBlankName(k) == k \in {"", " "}
\* p.startsWith("<")
StartsWithLt(p) == p \in {"<x>", "<unknown>"}

\* the names in localeCompare order
NameOrder == <<" ", "<unknown>", "<x>", "a", "b", "B", "c", "d">>
NameRank(n) == CHOOSE i \in 1..Len(NameOrder) : NameOrder[i] = n

RECURSIVE SortNames(_)
SortNames(S) ==
  IF S = {} THEN <<>>
  ELSE LET n == CHOOSE x \in S : \A y \in S : NameRank(x) <= NameRank(y)
       IN <<n>> \o SortNames(S \ {n})

\* a dependency field that is an object, and Object.keys(obj) of a field,
\* none when it is not an object
Deps(keys) == [t |-> "obj", keys |-> keys]
KeysOfField(obj) == IF obj.t = "obj" THEN obj.keys ELSE {}

collectDirectRootsFromPackageJson_NoDev(file) ==
  LET pkg == safeReadJson(file)
  IN IF Falsy(pkg) \/ pkg.t # "pkg" THEN <<>>
     ELSE SortNames({k \in KeysOfField(pkg.dependencies)
                            \cup KeysOfField(pkg.optionalDependencies)
                            \cup KeysOfField(pkg.peerDependencies) :
                       ~IsBlankName(k)})

\* file is <projectRoot>/package.json
collectDirectRootsFromPackageJson(file) ==
  LET pkg == safeReadJson(file)
  IN IF Falsy(pkg) \/ pkg.t # "pkg" THEN <<>>
     ELSE SortNames({k \in KeysOfField(pkg.dependencies)
                            \cup KeysOfField(pkg.devDependencies)
                            \cup KeysOfField(pkg.optionalDependencies)
                            \cup KeysOfField(pkg.peerDependencies) :
                       ~IsBlankName(k)})

\* the edges of the installed graph without the peerDependencies
extractDependencyKeys_NoPeer(pkgJson) ==
  IF pkgJson.t # "pkg" THEN {}
  ELSE KeysOfField(pkgJson.dependencies)
         \cup KeysOfField(pkgJson.optionalDependencies)

extractDependencyKeys(pkgJson) ==
  IF pkgJson.t # "pkg" THEN {}
  ELSE KeysOfField(pkgJson.dependencies)
         \cup KeysOfField(pkgJson.optionalDependencies)
         \cup KeysOfField(pkgJson.peerDependencies)

\* The loop of buildGraphFromNodeModules over toScan, the paths listed as in
\* the scanner, each [dir, file] with dir the name of the package directory.
\* The graph is a function from names to sets of names.
RECURSIVE buildGraphFromNodeModules(_, _, _)
buildGraphFromNodeModules(toScan, i, graph) ==
  IF i > Len(toScan) THEN graph
  ELSE LET p == toScan[i]
           json == safeReadJson(p.file)
           name == IF json.t = "pkg" /\ json.name.str THEN json.name.v ELSE p.dir
           set == IF name \in DOMAIN graph THEN graph[name] ELSE {}
       IN IF ~p.file.isFile \/ Falsy(json)
          THEN buildGraphFromNodeModules(toScan, i + 1, graph)
          ELSE buildGraphFromNodeModules(toScan, i + 1,
                 [n \in DOMAIN graph \cup {name} |->
                    IF n = name THEN set \cup extractDependencyKeys(json)
                    ELSE graph[n]])

\* the while loop over the queue q of [pkg, root]; rootsFor is a function
\* from names to sets of roots
RECURSIVE Walk(_, _, _, _)
Walk(q, seen, rootsFor, graph) ==
  IF q = <<>> THEN rootsFor
  ELSE LET item == Head(q)
           key == <<item.root, item.pkg>>
           set == IF item.pkg \in DOMAIN rootsFor THEN rootsFor[item.pkg] ELSE {}
           children == IF item.pkg \in DOMAIN graph
                       THEN SortNames(graph[item.pkg]) ELSE <<>>
       IN IF key \in seen THEN Walk(Tail(q), seen, rootsFor, graph)
          ELSE Walk(Tail(q) \o [c \in 1..Len(children) |->
                                  [pkg |-> children[c], root |-> item.root]],
                    seen \cup {key},
                    [n \in DOMAIN rootsFor \cup {item.pkg} |->
                       IF n = item.pkg THEN set \cup {item.root} ELSE rootsFor[n]],
                    graph)

\* a result value: Null, or the roots joined by "|", as their sequence
Joined(names) == [t |-> "roots", v |-> names]

\* top is <projectRoot>/package.json, nodeModulesIsDirectory what
\* statSync(<projectRoot>/node_modules).isDirectory says, toScan the listed
\* manifests, packages the queried names
computeRootByPackageFromNodeModules(top, nodeModulesIsDirectory, toScan, packages) ==
  LET directRoots == collectDirectRootsFromPackageJson(top)
      graph == buildGraphFromNodeModules(toScan, 1, << >>)
      rootsFor == Walk([i \in 1..Len(directRoots) |->
                          [pkg |-> directRoots[i], root |-> directRoots[i]]],
                       {}, << >>, graph)
      out == [p \in packages |->
                IF StartsWithLt(p) THEN Null
                ELSE IF p \notin DOMAIN rootsFor THEN Null
                ELSE Joined(SortNames(rootsFor[p]))]
  IN IF ~nodeModulesIsDirectory THEN [p \in packages |-> Null]
     ELSE [p \in packages |->
             IF (\E i \in 1..Len(directRoots) : directRoots[i] = p)
                /\ out[p] = Null
             THEN Joined(<<p>>) ELSE out[p]]

\* ------------------------------------------------ SpecRoots: one resolution
\* Manifests installed under node_modules.
MaxInstalled == 2

TopManifests ==
  {NoFile, BadJson, Json(Null)}
    \cup {Json(Pkg([str |-> TRUE, v |-> "app"], deps, dev, opt, peer)) :
            deps \in {Undef, Deps({"a"}), Deps({"a", "b"}), Deps({" "})},
            dev \in {Undef, Deps({"b"}), Deps({"c"})},
            opt \in {Undef, Deps({"<x>"})},
            peer \in {Undef, Deps({"a"})}}

InstalledManifests ==
  {PkgJson("a", Json(Pkg([str |-> TRUE, v |-> "a"], Deps({"b"}), Deps({"c"}), Undef, Undef))),
   PkgJson("b", Json(Pkg([str |-> TRUE, v |-> "b"], Undef, Undef, Undef, Deps({"a"})))),
   PkgJson("b", Json(Pkg([str |-> TRUE, v |-> "b"], Deps({"c"}), Undef, Deps({"d"}), Undef))),
   PkgJson("c", Json(Pkg([str |-> TRUE, v |-> "c"], Deps({}), Undef, Undef, Undef))),
   PkgJson("d", Json(Pkg([str |-> FALSE, v |-> ""], Deps({"a"}), Undef, Undef, Undef))),
   PkgJson("c", BadJson),
   PkgJson("a", NoFile)}

RECURSIVE InstalledUpTo(_)
InstalledUpTo(n) ==
  IF n = 0 THEN {<<>>}
  ELSE InstalledUpTo(n - 1)
       \cup {Append(s, m) : s \in {x \in InstalledUpTo(n - 1) : Len(x) = n - 1},
                            m \in InstalledManifests}

Queried == {{"a", "b", "c", "<x>", " ", "<unknown>"}, {"b", "d"}}

InitRoots ==
  /\ cfg = PureCfg
  /\ Idle
  /\ pureIn \in [t : {"roots"}, top : TopManifests, isDirectory : BOOLEAN,
                 toScan : InstalledUpTo(MaxInstalled), packages : Queried]
  /\ pureOut = Undef

ComputeRoots ==
  /\ pureOut = Undef
  /\ pureOut' = [t |-> "rootmap",
                 out |-> computeRootByPackageFromNodeModules(
                           pureIn.top, pureIn.isDirectory, pureIn.toScan,
                           pureIn.packages)]
  /\ UNCHANGED pureIn
  /\ UNCHANGED procVars

NextRoots == ComputeRoots

SpecRoots == InitRoots /\ [][NextRoots]_vars

\* the keys of the four dependency fields of the project's manifest
ManifestRoots(top) ==
  IF top.isFile /\ top.readable /\ top.parses /\ top.data.t = "pkg"
  THEN KeysOfField(top.data.dependencies)
         \cup KeysOfField(top.data.devDependencies)
         \cup KeysOfField(top.data.optionalDependencies)
         \cup KeysOfField(top.data.peerDependencies)
  ELSE {}

\* the edges the installed manifests give: from a manifest's name to each
\* key of its dependencies, optionalDependencies and peerDependencies
InstalledEdges(toScan) ==
  UNION {{<<IF toScan[i].file.data.name.str THEN toScan[i].file.data.name.v
            ELSE toScan[i].dir, d>> :
            d \in KeysOfField(toScan[i].file.data.dependencies)
                    \cup KeysOfField(toScan[i].file.data.optionalDependencies)
                    \cup KeysOfField(toScan[i].file.data.peerDependencies)} :
         i \in {j \in 1..Len(toScan) :
                  /\ toScan[j].file.isFile /\ toScan[j].file.parses
                  /\ toScan[j].file.data.t = "pkg"}}

RECURSIVE ReachedFrom(_, _)
ReachedFrom(S, edges) ==
  LET more == S \cup {e[2] : e \in {x \in edges : x[1] \in S}}
  IN IF more = S THEN S ELSE ReachedFrom(more, edges)

\* the direct roots that reach p through the installed graph, p included
\* when it is one
RootsReaching(p) ==
  {r \in ManifestRoots(pureIn.top) :
     r # " " /\ p \in ReachedFrom({r}, InstalledEdges(pureIn.toScan))}

\* C20 as stated: every queried package that is a key of the top-level
\* manifest's dependencies, devDependencies, optionalDependencies or
\* peerDependencies maps to its own name, also when the walk over the
\* installed manifests did not find it.
C20_DirectRootMapsToItself ==
  pureOut.t = "rootmap" =>
    \A p \in pureIn.packages \cap ManifestRoots(pureIn.top) :
      pureOut.out[p] = Joined(<<p>>)

\* C20 amended: with node_modules a directory, a queried package that is a
\* non-blank key of those fields maps to the sorted list of the direct roots
\* that reach it, its own name among them, and to its own name alone when no
\* other direct root reaches it or its name begins with "<"; without
\* node_modules every queried package maps to null.
C20_DirectRootAmongItsRoots ==
  pureOut.t = "rootmap" =>
    /\ ~pureIn.isDirectory => \A p \in pureIn.packages : pureOut.out[p] = Null
    /\ pureIn.isDirectory =>
         \A p \in (pureIn.packages \cap ManifestRoots(pureIn.top)) \ {" "} :
           /\ p \in RootsReaching(p)
           /\ pureOut.out[p] =
                IF StartsWithLt(p) \/ RootsReaching(p) = {p}
                THEN Joined(<<p>>)
                ELSE Joined(SortNames(RootsReaching(p)))

\* a devDependency that no installed manifest names maps to itself
C20_MissedRootMapsToItself ==
  /\ pureOut.t = "rootmap"
  /\ pureIn.isDirectory
  /\ pureIn.toScan = <<>>
  /\ pureIn.top.data.t = "pkg"
  /\ "b" \in KeysOfField(pureIn.top.data.devDependencies)
  /\ "b" \in pureIn.packages
  /\ pureOut.out["b"] = Joined(<<"b">>)

\* ------------------------------------------------------------------ runSandbox
\* One sandbox run of the command line tool. Its input is [t |-> "sandbox",
\* flags, summary, cmd]: the volume and observe flags given, global.summary,
\* and the command. Its state is pureOut = [t |-> "sandbox", pc, steps, code,
\* ret]: where the run stands, the steps taken so far, the exit code of the
\* container and what runSandbox returned ("none" while it runs).

VolumeFlags == {"--persist-volumes", "--work-volume", "--cache-volume"}

\* sandbox.ephemeralVolumes after parseFlags
ephemeralVolumes_WorkVolumeKept(flags) ==
  "--persist-volumes" \notin flags /\ "--cache-volume" \notin flags

ephemeralVolumes(flags) ==
  /\ "--persist-volumes" \notin flags
  /\ "--work-volume" \notin flags
  /\ "--cache-volume" \notin flags

\* sandbox.observe after parseFlags
observe(flags) == "--no-observe" \notin flags

InitSandbox ==
  /\ cfg = PureCfg
  /\ Idle
  /\ pureIn \in [t : {"sandbox"},
                 flags : SUBSET (VolumeFlags \cup {"--no-observe"}),
                 summary : BOOLEAN,
                 cmd : {<<>>, <<"npm", "install">>}]
  /\ pureOut = Undef

SbStep(step, pc) ==
  pureOut' = [pureOut EXCEPT !.steps = Append(@, step), !.pc = pc]

\* if (!cmd.length) die(...); ...; new Deno.Command("docker", ...).spawn()
SbStart ==
  /\ pureOut = Undef
  /\ pureOut' =
       IF Len(pureIn.cmd) = 0
       THEN [t |-> "sandbox", pc |-> "done", steps |-> <<"die">>,
             code |-> -1, ret |-> 2]
       ELSE [t |-> "sandbox", pc |-> "container", steps |-> <<"spawn">>,
             code |-> -1, ret |-> "none"]
  /\ UNCHANGED pureIn
  /\ UNCHANGED procVars

\* const status = await child.status;
\* if (sandbox.observe && observed && global.summary) { try { ...
SbContainerExits(code) ==
  /\ pureOut.t = "sandbox" /\ pureOut.pc = "container"
  /\ pureOut' = [pureOut EXCEPT
                   !.code = code,
                   !.steps = Append(@, "containerExited"),
                   !.pc = IF observe(pureIn.flags) /\ pureIn.summary
                          THEN "summarize" ELSE "cleanup"]
  /\ UNCHANGED pureIn
  /\ UNCHANGED procVars

\* const summary = await summarizeJsonl(observed.logHostPath), which may
\* reject; summary.rootByPackage = computeRootByPackageFromNodeModules(...)
SbSummarize(ok, hasAnyRoots) ==
  /\ pureOut.t = "sandbox" /\ pureOut.pc = "summarize"
  /\ IF ~ok THEN SbStep("summarizeFailed", "cleanup")
     ELSE IF hasAnyRoots THEN SbStep("summarized", "print")
     ELSE SbStep("summarized", "roots")
  /\ UNCHANGED pureIn
  /\ UNCHANGED procVars

\* const roots = await computeRootsInSandbox(...): the docker run begins
SbRootsStart ==
  /\ pureOut.t = "sandbox" /\ pureOut.pc = "roots"
  /\ SbStep("rootsStart", "rootsRunning")
  /\ UNCHANGED pureIn
  /\ UNCHANGED procVars

\* ... and its promise settles
SbRootsEnd(ok) ==
  /\ pureOut.t = "sandbox" /\ pureOut.pc = "rootsRunning"
  /\ SbStep("rootsEnd", IF ok THEN "print" ELSE "cleanup")
  /\ UNCHANGED pureIn
  /\ UNCHANGED procVars

\* console.log(...); await writeSummaryCsv(...), which may reject
SbPrint(ok) ==
  /\ pureOut.t = "sandbox" /\ pureOut.pc = "print"
  /\ SbStep(IF ok THEN "printed" ELSE "printFailed", "cleanup")
  /\ UNCHANGED pureIn
  /\ UNCHANGED procVars

\* if (sandbox.ephemeralVolumes) await removeDockerVolumes([...]);
\* return status.code
SbCleanup(removed) ==
  /\ pureOut.t = "sandbox" /\ pureOut.pc = "cleanup"
  /\ pureOut' = [pureOut EXCEPT
                   !.steps = IF ephemeralVolumes(pureIn.flags)
                             THEN Append(@, IF removed THEN "volumeRm"
                                            ELSE "volumeRmFailed")
                             ELSE @,
                   !.pc = "done",
                   !.ret = pureOut.code]
  /\ UNCHANGED pureIn
  /\ UNCHANGED procVars

NextSandbox ==
  \/ SbStart
  \/ \E code \in ExitCodes : SbContainerExits(code)
  \/ \E ok, hasAnyRoots \in BOOLEAN : SbSummarize(ok, hasAnyRoots)
  \/ SbRootsStart
  \/ \E ok \in BOOLEAN : SbRootsEnd(ok)
  \/ \E ok \in BOOLEAN : SbPrint(ok)
  \/ \E removed \in BOOLEAN : SbCleanup(removed)

SpecSandbox == InitSandbox /\ [][NextSandbox]_vars

\* the positions of the attempts to remove the volumes
RemovalSteps ==
  {i \in 1..Len(pureOut.steps) : pureOut.steps[i] \in {"volumeRm", "volumeRmFailed"}}

\* C21: with ephemeral volumes, removal of the work and cache volumes is
\* attempted exactly once, only after the container has exited, for every
\* exit code and also when summarisation fails, and never before the
\* in-container root computation has finished; with --persist-volumes,
\* --work-volume or --cache-volume no volume is ever removed.
C21_VolumesRemovedOnceAfterExit ==
  (pureOut.t = "sandbox" /\ Len(pureIn.cmd) > 0) =>
    /\ Cardinality(RemovalSteps) <= 1
    /\ \A i \in RemovalSteps :
         /\ \E j \in 1..(i - 1) : pureOut.steps[j] = "containerExited"
         /\ \A j \in 1..Len(pureOut.steps) :
              pureOut.steps[j] = "rootsStart" =>
                \E k \in (j + 1)..(i - 1) : pureOut.steps[k] = "rootsEnd"
    /\ (pureOut.pc = "done" /\ pureIn.flags \cap VolumeFlags = {})
         => Cardinality(RemovalSteps) = 1
    /\ pureIn.flags \cap VolumeFlags # {} => RemovalSteps = {}

\* the container failed, summarisation failed, the volumes were removed
C21_RemovedAfterFailedSummary ==
  /\ pureOut.t = "sandbox"
  /\ pureOut.pc = "done"
  /\ pureOut.code = 1
  /\ pureOut.steps =
       <<"spawn", "containerExited", "summarizeFailed", "volumeRm">>

\* ------------------------------------------------- buildSandboxDockerRunArgs
\* An argument is the sequence of the texts it is put together from, so
\* `${cwd}:/src:ro` is <<cwd, ":/src:ro">>. A log path is [abs, dir, base].

Lit(s) == <<s>>
\* String(n)
StringOf(n) == IF n = 256 THEN "256" ELSE IF n = 512 THEN "512" ELSE "1024"

dockerTmpfsArgs(target, size) ==
  <<Lit("--tmpfs"), <<target, ":rw,nosuid,nodev,noexec,size=", size>> >>

\* dirname(resolve(cwd, logHostPath)) and basename(logHostPath)
BindHostDir(cwd, log) == IF log.abs THEN <<log.dir>> ELSE <<cwd, "/", log.dir>>

SCRIPT == Lit("set -eu ... exec \"$cmd\" \"$@\"")

ObservedArgs(cwd, observed) ==
  << Lit("-v"), BindHostDir(cwd, observed.logHostPath) \o <<":/opt/npm-malwatch">>,
     Lit("-e"), <<"NPM_MALWATCH_LOG=/opt/npm-malwatch/", observed.logHostPath.base>>,
     Lit("-e"), <<"NPM_MALWATCH_SESSION=", observed.session>>,
     Lit("-e"), Lit("NPM_MALWATCH_FILTER=package-only"),
     Lit("-e"), <<"NPM_MALWATCH_INCLUDE_PM=", IF observed.includePm THEN "1" ELSE "0">>,
     Lit("-e"), <<"NPM_MALWATCH_HARDENING=", observed.hardening>>,
     Lit("-e"), Lit("NODE_OPTIONS=--require /opt/npm-malwatch/preload.cjs") >>

buildSandboxDockerRunArgs_AlwaysObserved(cwd, sandbox, command, observed) ==
  IF Len(command) = 0 THEN Throw
  ELSE [t |-> "args", args |->
        << Lit("run"), Lit("--rm"), Lit("--read-only"), Lit("--cap-drop=ALL"),
           Lit("--security-opt"), Lit("no-new-privileges"),
           Lit("--pids-limit"), Lit(StringOf(sandbox.pidsLimit)),
           Lit("--memory"), Lit(sandbox.memory),
           Lit("--cpus"), Lit(sandbox.cpus),
           Lit("--network"), Lit(sandbox.network) >>
        \o dockerTmpfsArgs("/tmp", "1g")
        \o dockerTmpfsArgs("/run", "64m")
        \o dockerTmpfsArgs("/home/node", "1g")
        \o << Lit("--workdir"), Lit("/work"),
              Lit("-v"), <<cwd, ":/src:ro">>,
              Lit("-v"), <<sandbox.workVolume, ":/work">>,
              Lit("-v"), <<sandbox.cacheVolume, ":/cache">> >>
        \o (IF observed # Undef THEN ObservedArgs(cwd, observed) ELSE <<>>)
        \o << Lit("-e"), Lit("HOME=/home/node"),
              Lit("-e"), Lit("NPM_CONFIG_CACHE=/cache/npm"),
              Lit("-e"), Lit("COREPACK_HOME=/cache/corepack"),
              Lit(sandbox.image),
              Lit("sh"), Lit("-lc"), SCRIPT, Lit("--") >>
        \o [i \in 1..Len(command) |-> Lit(command[i])]]

buildSandboxDockerRunArgs(cwd, sandbox, command, observed) ==
  IF Len(command) = 0 THEN Throw
  ELSE [t |-> "args", args |->
        << Lit("run"), Lit("--rm"), Lit("--read-only"), Lit("--cap-drop=ALL"),
           Lit("--security-opt"), Lit("no-new-privileges"),
           Lit("--pids-limit"), Lit(StringOf(sandbox.pidsLimit)),
           Lit("--memory"), Lit(sandbox.memory),
           Lit("--cpus"), Lit(sandbox.cpus),
           Lit("--network"), Lit(sandbox.network) >>
        \o dockerTmpfsArgs("/tmp", "1g")
        \o dockerTmpfsArgs("/run", "64m")
        \o dockerTmpfsArgs("/home/node", "1g")
        \o << Lit("--workdir"), Lit("/work"),
              Lit("-v"), <<cwd, ":/src:ro">>,
              Lit("-v"), <<sandbox.workVolume, ":/work">>,
              Lit("-v"), <<sandbox.cacheVolume, ":/cache">> >>
        \o (IF sandbox.observe /\ observed # Undef
            THEN ObservedArgs(cwd, observed) ELSE <<>>)
        \o << Lit("-e"), Lit("HOME=/home/node"),
              Lit("-e"), Lit("NPM_CONFIG_CACHE=/cache/npm"),
              Lit("-e"), Lit("COREPACK_HOME=/cache/corepack"),
              Lit(sandbox.image),
              Lit("sh"), Lit("-lc"), SCRIPT, Lit("--") >>
        \o [i \in 1..Len(command) |-> Lit(command[i])]]

SandboxConfigs ==
  [pidsLimit : {256, 512}, memory : {"2g", "512m"}, cpus : {"2"},
   network : {"bridge", "none"}, image : {"node:20-bookworm"},
   workVolume : {"npm-malwatch-work-1", "mywork"},
   cacheVolume : {"npm-malwatch-cache-1"}, observe : BOOLEAN]

ObservedEnvs ==
  {Undef}
    \cup [t : {"observed"},
          logHostPath : {[abs |-> TRUE, dir |-> "/p/.npm-malwatch/run", base |-> "events.jsonl"],
                         [abs |-> FALSE, dir |-> "logs", base |-> "e.jsonl"]},
          session : {"1-2"}, includePm : BOOLEAN, hardening : {"detect", "off"}]

SandboxCommands ==
  {<<>>, <<"npm", "install">>,
   <<"pnpm", "i", "-e", "NODE_OPTIONS=--require /opt/npm-malwatch/preload.cjs">>}

InitArgs ==
  /\ cfg = PureCfg
  /\ Idle
  /\ pureIn \in [t : {"params"}, cwd : {"/p"}, sandbox : SandboxConfigs,
                 command : SandboxCommands, observed : ObservedEnvs]
  /\ pureOut = Undef

BuildArgs ==
  /\ pureOut = Undef
  /\ pureOut' = buildSandboxDockerRunArgs(pureIn.cwd, pureIn.sandbox,
                                          pureIn.command, pureIn.observed)
  /\ UNCHANGED pureIn
  /\ UNCHANGED procVars

NextArgs == BuildArgs

SpecArgs == InitArgs /\ [][NextArgs]_vars

\* the docker options of an invocation: what precedes the image, sh, -lc,
\* the script, the sentinel and the command
OptionsOf(args, command) == SubSeq(args, 1, Len(args) - Len(command) - 5)
Has(opts, a) == \E i \in 1..Len(opts) : opts[i] = a
HasPair(opts, a, b) ==
  \E i \in 1..(Len(opts) - 1) : opts[i] = a /\ opts[i + 1] = b
\* an option built from a text that begins with prefix
HasPrefixed(opts, prefix) ==
  \E i \in 1..Len(opts) : opts[i][1] = prefix \/ opts[i] = <<prefix>>

\* C22: for every configuration and non-empty command the invocation holds
\* --read-only, --cap-drop=ALL, --security-opt no-new-privileges, the
\* configured limits and network, the source at /src read-only, the volumes
\* at /work and /cache, and ends with the command after the -- sentinel; the
\* NPM_MALWATCH_* variables, the NODE_OPTIONS --require and the
\* /opt/npm-malwatch mount are there exactly when observe is on and observed
\* settings are supplied; an empty command is rejected.
C22_HardenedInvocation ==
  pureOut.t \in {"args", "throw"} =>
    /\ pureOut.t = "throw" <=> pureIn.command = <<>>
    /\ pureOut.t = "args" =>
         LET args == pureOut.args
             n == Len(args)
             m == Len(pureIn.command)
             opts == OptionsOf(args, pureIn.command)
             sb == pureIn.sandbox
             observing == sb.observe /\ pureIn.observed # Undef
         IN /\ Has(opts, Lit("--read-only"))
            /\ Has(opts, Lit("--cap-drop=ALL"))
            /\ HasPair(opts, Lit("--security-opt"), Lit("no-new-privileges"))
            /\ HasPair(opts, Lit("--pids-limit"), Lit(StringOf(sb.pidsLimit)))
            /\ HasPair(opts, Lit("--memory"), Lit(sb.memory))
            /\ HasPair(opts, Lit("--cpus"), Lit(sb.cpus))
            /\ HasPair(opts, Lit("--network"), Lit(sb.network))
            /\ HasPair(opts, Lit("-v"), <<pureIn.cwd, ":/src:ro">>)
            /\ HasPair(opts, Lit("-v"), <<sb.workVolume, ":/work">>)
            /\ HasPair(opts, Lit("-v"), <<sb.cacheVolume, ":/cache">>)
            /\ args[n - m] = Lit("--")
            /\ \A i \in 1..m : args[n - m + i] = Lit(pureIn.command[i])
            /\ args[n - m - 4] = Lit(sb.image)
            /\ \A v \in {"NPM_MALWATCH_LOG=/opt/npm-malwatch/",
                         "NPM_MALWATCH_SESSION=",
                         "NPM_MALWATCH_FILTER=package-only",
                         "NPM_MALWATCH_INCLUDE_PM=",
                         "NPM_MALWATCH_HARDENING=",
                         "NODE_OPTIONS=--require /opt/npm-malwatch/preload.cjs"} :
                 HasPrefixed(opts, v) <=> observing
            /\ (\E i \in 1..Len(opts) :
                  opts[i][Len(opts[i])] = ":/opt/npm-malwatch") <=> observing

\* observe on with settings: the preload is required and the log dir mounted
C22_ObservedInvocation ==
  /\ pureOut.t = "args"
  /\ pureIn.sandbox.observe
  /\ pureIn.command = <<"npm", "install">>
  /\ HasPair(pureOut.args, Lit("-e"),
             Lit("NODE_OPTIONS=--require /opt/npm-malwatch/preload.cjs"))
  /\ HasPair(pureOut.args, Lit("-v"), <<"/p", "/", "logs", ":/opt/npm-malwatch">>)

\* ----------------------------------------------- concurrent wrapAsync calls
\* Two operations behind wrappers built by wrapAsync are in flight at once.
\* A promise-returning original (fs.promises.readFile) hands back an
\* awaitable; a callback-style original (dns.lookup, fs.readFile) returns
\* undefined at once and completes when its callback is invoked.

AsyncIds == {1, 2}
AsyncStyles == {"promise", "callback"}

StyleOp(style) ==
  IF style = "promise" THEN "fs.promises.readFile" ELSE "dns.lookup"

\* what original.apply(this, args) gives the wrapper
StyleOutcome(style) ==
  IF style = "promise" THEN Promise ELSE Returned("undefined")

SeqRange(s) == {s[i] : i \in 1..Len(s)}

\* id repeated once per line appended between the logs before and after
Written(before, after, id) ==
  [k \in 1..(Len(after.log) - Len(before.log)) |-> id]

InitAsync ==
  /\ cfg \in {PureCfg, [PureCfg EXCEPT !.filter = "all"]}
  /\ Idle
  /\ pureIn \in [t : {"async"}, style : [AsyncIds -> AsyncStyles]]
  /\ pureOut = [t |-> "async", S |-> EmptySink, order |-> <<>>,
                started |-> <<>>, completed |-> <<>>, events |-> <<>>,
                evBase |-> [i \in AsyncIds |-> Undef]]

\* the observed program calls the wrapper of operation id
AsStart(id, ctx, E) ==
  /\ pureIn # Undef /\ pureIn.t = "async"
  /\ id \notin SeqRange(pureOut.started)
  /\ \E r \in {wrapAsync(pureOut.S, E, cfg, fns, realFs,
                         StyleOp(pureIn.style[id]), ctx, PlainArgs,
                         StyleOutcome(pureIn.style[id]))} :
        pureOut' = [pureOut EXCEPT
                      !.S = r.S,
                      !.order = @ \o Written(pureOut.S, r.S, id),
                      !.started = Append(@, id),
                      !.events = Append(@, <<"start", id>>),
                      !.evBase[id] = r.evBase]
  /\ UNCHANGED pureIn
  /\ UNCHANGED procVars

\* operation id completes: its awaitable settles and the continuation
\* attached by the wrapper runs, or its callback is invoked (the callback is
\* the caller's own function, the wrapper does not take part)
AsComplete(id, settled, ctxNow, E) ==
  /\ pureIn # Undef /\ pureIn.t = "async"
  /\ id \in SeqRange(pureOut.started)
  /\ id \notin SeqRange(pureOut.completed)
  /\ IF pureIn.style[id] = "promise"
     THEN \E r \in {wrapAsyncSettle(pureOut.S, E, cfg, fns, realFs,
                                    StyleOp("promise"), pureOut.evBase[id],
                                    ctxNow, settled)} :
             pureOut' = [pureOut EXCEPT
                           !.S = r.S,
                           !.order = @ \o Written(pureOut.S, r.S, id),
                           !.completed = Append(@, id),
                           !.events = Append(@, <<"complete", id>>)]
     ELSE pureOut' = [pureOut EXCEPT
                        !.completed = Append(@, id),
                        !.events = Append(@, <<"complete", id>>)]
  /\ UNCHANGED pureIn
  /\ UNCHANGED procVars

NextAsync ==
  \/ \E id \in AsyncIds, ctx \in Contexts, E \in IoEnvs : AsStart(id, ctx, E)
  \/ \E id \in AsyncIds, settled \in {Returned("v"), Threw(E_orig)},
        ctxNow \in Contexts, E \in IoEnvs : AsComplete(id, settled, ctxNow, E)

SpecAsync == InitAsync /\ [][NextAsync]_vars

\* C23: when two operations behind wrapAsync wrappers, promise-returning or
\* callback-style, were in flight at once, have both completed and each has
\* its record in the log, the records are in the order in which the
\* operations completed, not the order in which they were started.
C23_RecordsInCompletionOrder ==
  (/\ pureOut # Undef /\ pureOut.t = "async"
   /\ Len(pureOut.completed) = 2
   /\ Len(pureOut.order) = 2
   /\ SeqRange(pureOut.order) = AsyncIds)
  => pureOut.order = pureOut.completed

\* where the wrapper of an operation writes its record: at the completion
\* of a promise-returning operation, at the call of a callback-style one
IsLogPoint(e) ==
  IF pureIn.style[e[2]] = "promise" THEN e[1] = "complete" ELSE e[1] = "start"

RECURSIVE LogPoints(_)
LogPoints(events) ==
  IF events = <<>> THEN <<>>
  ELSE IF IsLogPoint(Head(events))
       THEN <<Head(events)[2]>> \o LogPoints(Tail(events))
       ELSE LogPoints(Tail(events))

RECURSIVE IsSubsequence(_, _)
IsSubsequence(s, t) ==
  IF s = <<>> THEN TRUE
  ELSE IF t = <<>> THEN FALSE
  ELSE IF Head(s) = Head(t) THEN IsSubsequence(Tail(s), Tail(t))
  ELSE IsSubsequence(s, Tail(t))

\* C23 (amended): the records of promise-returning operations are in the
\* order in which the operations completed; the record of a callback-style
\* operation is written when the call returns, before the operation
\* completes, so it is placed by the order of the calls. The records in
\* the log are those log points in order, less the ones filtered out or
\* not written.
C23_PromisesByCompletionCallbacksByCall ==
  (pureOut # Undef /\ pureOut.t = "async")
  => /\ IsSubsequence(pureOut.order, LogPoints(pureOut.events))
     /\ ((/\ \A i \in AsyncIds : pureIn.style[i] = "promise"
          /\ Len(pureOut.order) = 2)
         => pureOut.order = pureOut.completed)
     /\ ((/\ \A i \in AsyncIds : pureIn.style[i] = "callback"
          /\ Len(pureOut.order) = 2)
         => pureOut.order = pureOut.started)

\* two promise-returning operations, the second one called completing
\* first, both recorded
C23_SecondPromiseRecordedFirst ==
  /\ pureOut # Undef /\ pureOut.t = "async"
  /\ \A i \in AsyncIds : pureIn.style[i] = "promise"
  /\ pureOut.started = <<1, 2>>
  /\ pureOut.completed = <<2, 1>>
  /\ pureOut.order = <<2, 1>>

\* ------------------------------------------- the keys the aggregator derives
\* A text the aggregator builds is [t |-> "text", rope]: the sequence of the
\* strings it was concatenated from, none of them empty. A string value
\* holds no white space except the one-character string " ".

Space == Str(" ", 1)
Comma == Str(",", 1)
\* the one-character string U+2026
Ellipsis == Str("ellipsis", 1)

Text(rope) == [t |-> "text", rope |-> rope]
RopeOf(s) == IF s.len = 0 THEN <<>> ELSE <<s>>

RECURSIVE RopeLen(_)
RopeLen(r) == IF r = <<>> THEN 0 ELSE Head(r).len + RopeLen(Tail(r))

\* String.prototype.slice(0, n)
RECURSIVE RopeSlice(_, _)
RopeSlice(r, n) ==
  IF r = <<>> \/ n <= 0 THEN <<>>
  ELSE IF Head(r).len <= n
       THEN <<Head(r)>> \o RopeSlice(Tail(r), n - Head(r).len)
       ELSE <<[Head(r) EXCEPT !.len = n, !.ell = FALSE]>>

\* Array.prototype.join(sep) on texts
RECURSIVE JoinRopes(_, _)
JoinRopes(ropes, sep) ==
  IF ropes = <<>> THEN <<>>
  ELSE IF Len(ropes) = 1 THEN Head(ropes)
  ELSE Head(ropes) \o <<sep>> \o JoinRopes(Tail(ropes), sep)

\* String.prototype.trim()
RECURSIVE TrimStart(_)
TrimStart(r) ==
  IF r = <<>> THEN <<>>
  ELSE IF Head(r).id = " " THEN TrimStart(Tail(r)) ELSE r

RECURSIVE TrimEnd(_)
TrimEnd(r) ==
  IF r = <<>> THEN <<>>
  ELSE IF r[Len(r)].id = " " THEN TrimEnd(SubSeq(r, 1, Len(r) - 1)) ELSE r

RopeTrim(r) == TrimEnd(TrimStart(r))

\* String(value): an array is its elements joined by commas, null and
\* undefined elements giving the empty string; a number is written "7" here
RECURSIVE safeToString(_)
safeToString(value) ==
  IF value.t = "str" THEN RopeOf(value)
  ELSE IF value.t = "text" THEN value.rope
  ELSE IF value.t = "undef" THEN <<Str("undefined", 9)>>
  ELSE IF value.t = "null" THEN <<Str("null", 4)>>
  ELSE IF value.t = "num" THEN <<Str("7", 1)>>
  ELSE IF value.t = "arr"
  THEN JoinRopes([i \in 1..Len(value.items) |->
                    IF value.items[i].t \in {"null", "undef"} THEN <<>>
                    ELSE safeToString(value.items[i])],
                 Comma)
  ELSE IF value.t = "obj" THEN <<Str("[object Object]", 15)>>
  ELSE <<Str("function", 8)>>

\* JSON.parse(JSON.stringify(v)): a property holding undefined is left out,
\* an array element holding undefined becomes null
RECURSIVE JsonRoundTrip(_)
JsonRoundTrip(v) ==
  IF v.t = "arr"
  THEN Arr([i \in 1..Len(v.items) |->
              IF v.items[i].t = "undef" THEN Null
              ELSE JsonRoundTrip(v.items[i])])
  ELSE IF v.t = "obj"
  THEN LET kept == SelectSeq([i \in 1..Len(v.keys) |-> i],
                             LAMBDA i : v.vals[i].t # "undef")
       IN Obj([i \in 1..Len(kept) |-> v.keys[kept[i]]],
              [i \in 1..Len(kept) |-> JsonRoundTrip(v.vals[kept[i]])])
  ELSE IF v.t = "args"
  THEN LET kept == SelectSeq(v.fields, LAMBDA f : f[2].t # "undef")
       IN Summary([i \in 1..Len(kept) |->
                     <<kept[i][1], JsonRoundTrip(kept[i][2])>>])
  ELSE v

\* evt?.args?.[name]
ArgsField(args, name) ==
  LET hits == {i \in 1..Len(args.fields) : args.fields[i][1] = name}
  IN IF hits = {} THEN Undef ELSE args.fields[CHOOSE i \in hits : TRUE][2]

\* a ?? b ?? ...: the first value that is neither null nor undefined
RECURSIVE Coalesce(_)
Coalesce(vs) ==
  IF Len(vs) = 1 THEN Head(vs)
  ELSE IF Head(vs).t \in {"null", "undef"} THEN Coalesce(Tail(vs))
  ELSE Head(vs)

normalizeCommand(cmd) ==
  LET s == RopeTrim(safeToString(cmd))
  IN IF s = <<>> THEN Null
     ELSE IF RopeLen(s) > 200 THEN Text(RopeSlice(s, 199) \o <<Ellipsis>>)
     ELSE Text(s)

\* the command key of a proc record, null when the record has none
procCommand(args) ==
  LET f == ArgsField(args, "file")
      a == ArgsField(args, "argv")
      file == IF f.t = "str" THEN f ELSE Null
      argv == IF a.t = "arr" THEN a ELSE Null
      composed ==
        IF file.t = "str" /\ file.len > 0 /\ argv.t = "arr" /\ Len(argv.items) > 0
        THEN Text(RopeOf(file) \o <<Space>>
                  \o JoinRopes([i \in 1..Len(argv.items) |->
                                  safeToString(argv.items[i])], Space))
        ELSE Null
  IN normalizeCommand(Coalesce(<<composed, ArgsField(args, "command"),
                                 ArgsField(args, "file"), ArgsField(args, "cmd")>>))

\* ------------------------------------------------- spawn-style calls, end to end
\* spawn(file, list, options) behind its wrapper, the record written to the
\* log, and the command key summarizeJsonl derives from the parsed line.

SpawnFiles == {Str("node", 4), Str("/usr/bin/sh", 11), Str("/long/path", 301)}
SpawnWords == {Str("-e", 2), Str("x", 1), Str("payload", 250), Num}
SpawnLists ==
  {<<>>} \cup {<<w>> : w \in SpawnWords}
         \cup {<<v, w>> : v \in SpawnWords, w \in SpawnWords}
         \cup {[i \in 1..21 |-> Str("x", 1)]}
SpawnOptions == {<<>>, <<Obj(<<K_mode>>, <<Num>>)>>}

InitSpawn ==
  /\ cfg = PureCfg
  /\ Idle
  /\ pureIn \in [t : {"spawn"}, file : SpawnFiles, list : SpawnLists,
                 options : SpawnOptions]
  /\ pureOut = Undef

SpawnAndSummarize ==
  /\ pureIn # Undef /\ pureIn.t = "spawn"
  /\ pureOut = Undef
  /\ \E m \in {makeArgs("spawn",
                        Arr(<<pureIn.file, Arr(pureIn.list)>> \o pureIn.options))} :
       pureOut' = IF m.t = "throw" THEN Throw
                  ELSE [t |-> "spawned", args |-> JsonRoundTrip(m),
                        key |-> procCommand(JsonRoundTrip(m))]
  /\ UNCHANGED pureIn
  /\ UNCHANGED procVars

NextSpawn == SpawnAndSummarize

SpecSpawn == InitSpawn /\ [][NextSpawn]_vars

\* x => truncateString(safeToString(x), 200) on an element of the list
StringifiedWord(x) ==
  IF x.t = "str" THEN truncateString(x, 200) ELSE Head(safeToString(x))

\* C24: for a spawn-style call with a string file f and an argument list L,
\* the record has args.file = f (cut to 300 characters) and args.argv = the
\* elements of L, each stringified and cut to 200 characters, at most 20 of
\* them; and the command key the aggregator derives from the record is f
\* followed by the elements of L joined by single spaces, cut to 200
\* characters.
C24_SpawnRecordGivesCommandKey ==
  (pureOut # Undef /\ pureOut.t = "spawned")
  => LET words == Take([i \in 1..Len(pureIn.list) |->
                          StringifiedWord(pureIn.list[i])], 20)
         file == truncateString(pureIn.file, 300)
     IN /\ ArgsField(pureOut.args, "file") = file
        /\ ArgsField(pureOut.args, "argv") = Arr(words)
        /\ pureOut.key =
             normalizeCommand(Text(JoinRopes([i \in 1..(Len(words) + 1) |->
                                               IF i = 1 THEN RopeOf(file)
                                               ELSE RopeOf(words[i - 1])],
                                             Space)))

\* the file half of the claim alone
C24_FileRecorded ==
  (pureOut # Undef /\ pureOut.t = "spawned")
  => ArgsField(pureOut.args, "file") = truncateString(pureIn.file, 300)

\* ------------------------------------------------------- host keys, net and dns

\* new URL(s).host for the hrefs of the model: a URL with a host, a URL
\* without one, and a text that is no URL (the constructor throws)
H_url == Str("https://registry.npmjs.org/x", 28)
H_file == Str("file:///etc/hosts", 17)
H_text == Str("not a url", 9)

UrlHost(s) ==
  IF s = <<H_url>> THEN Text(<<Str("registry.npmjs.org", 18)>>)
  ELSE IF s = <<H_file>> THEN Text(<<>>)
  ELSE Throw

normalizeHost(host) ==
  LET s == RopeTrim(safeToString(host))
  IN IF s = <<>> THEN Null ELSE Text(s)

hostFromHref(href) ==
  LET s == RopeTrim(safeToString(href))
  IN IF s = <<>> THEN Null
     ELSE LET u == UrlHost(s)
          IN IF u.t = "throw" THEN Null
             ELSE IF u.rope = <<>> THEN Null
             ELSE u

\* the host key of a net record, null when the record has none
netHost(args) ==
  Coalesce(<<normalizeHost(Coalesce(<<ArgsField(args, "host"),
                                      ArgsField(args, "hostname")>>)),
             hostFromHref(ArgsField(args, "href"))>>)

\* the host key of a dns record
dnsHost(args) == normalizeHost(ArgsField(args, "host"))

\* the key as the maps of the aggregator hold it, "" for none
KeyName(k) == IF k.t = "null" THEN "" ELSE k.rope[1].id

\* A field of a parsed record: left out, null, a string or a number.
Absent == [t |-> "absent"]
HostValues == {Absent, Null, Str("a.example", 9), Str("", 0), Num}
HostnameValues == {Absent, Str("b.example", 9), Str(" ", 1)}
HrefValues == {Absent, H_url, H_file, H_text}

HostArgs(host, hostname, href) ==
  Summary(SelectSeq(<< <<"host", host>>, <<"hostname", hostname>>,
                       <<"href", href>> >>,
                    LAMBDA f : f[2] # Absent))

InitHosts ==
  /\ cfg = PureCfg
  /\ Idle
  /\ pureIn \in [t : {"hostrec"}, category : {"net", "dns"},
                 host : HostValues, hostname : HostnameValues,
                 href : HrefValues]
  /\ pureOut = Undef

\* summarizeJsonl on a log holding that one record, by package a
SummarizeHostRecord ==
  /\ pureIn # Undef /\ pureIn.t = "hostrec"
  /\ pureOut = Undef
  /\ \E args \in {HostArgs(pureIn.host, pureIn.hostname, pureIn.href)} :
     \E k \in {IF pureIn.category = "net" THEN netHost(args) ELSE dnsHost(args)} :
       pureOut' = [t |-> "hostsum", key |-> k,
                   summary |-> summarizeJsonl(
                     <<Event(PkgName("a"), pureIn.category,
                             IF pureIn.category = "net" THEN "http.get"
                             ELSE "dns.lookup",
                             KeyName(k))>>)]
  /\ UNCHANGED pureIn
  /\ UNCHANGED procVars

NextHosts == SummarizeHostRecord

SpecHosts == InitHosts /\ [][NextHosts]_vars

\* a field that is there: a string that is not blank
Present(v) == v.t = "str" /\ RopeTrim(RopeOf(v)) # <<>>

\* the key the record should get: host, else hostname, else the host of a
\* href that parses; for dns the host; "" for none
ClaimedHostKey ==
  IF pureIn.category = "dns"
  THEN IF Present(pureIn.host) THEN pureIn.host.id ELSE ""
  ELSE IF Present(pureIn.host) THEN pureIn.host.id
  ELSE IF Present(pureIn.hostname) THEN pureIn.hostname.id
  ELSE IF pureIn.href = H_url THEN "registry.npmjs.org"
  ELSE ""

TableKeys(table) == {table[i].key : i \in 1..Len(table)}

\* C25: a net record is keyed by args.host when present, otherwise by
\* args.hostname, otherwise by the host of args.href when it parses as a
\* URL, and a dns record by args.host; a record with none of these adds no
\* entry to any host table, and still counts in byPackage.
C25_HostKeyFallsBackToHref ==
  (pureOut # Undef /\ pureOut.t = "hostsum" /\ pureIn.host # Num)
  => LET s == pureOut.summary
         claimed == IF ClaimedHostKey = "" THEN {} ELSE {ClaimedHostKey}
     IN /\ s.totalEvents = 1
        /\ s.byPackage["a"][pureIn.category] = 1
        /\ TableKeys(s.topHosts) = (IF pureIn.category = "net" THEN claimed ELSE {})
        /\ TableKeys(s.topNetHosts) = (IF pureIn.category = "net" THEN claimed ELSE {})
        /\ TableKeys(s.topDnsHosts) = (IF pureIn.category = "dns" THEN claimed ELSE {})

\* the part of the claim about a host that is there, and the count
C25_PresentHostIsKey ==
  (pureOut # Undef /\ pureOut.t = "hostsum")
  => /\ pureOut.summary.byPackage["a"][pureIn.category] = 1
     /\ Present(pureIn.host) =>
          TableKeys(IF pureIn.category = "net" THEN pureOut.summary.topNetHosts
                    ELSE pureOut.summary.topDnsHosts) = {pureIn.host.id}

\* ------------------------------------------ the walk over a graph with cycles
\* Installed trees whose manifests depend on each other in a circle and on
\* themselves, up to MaxChain manifests.
MaxChain == 3

\* the pairs [root, pkg] the while loop processes (adds to seen), in order
RECURSIVE WalkProcessed(_, _, _, _)
WalkProcessed(q, seen, graph, processed) ==
  IF q = <<>> THEN processed
  ELSE LET item == Head(q)
           key == <<item.root, item.pkg>>
           children == IF item.pkg \in DOMAIN graph
                       THEN SortNames(graph[item.pkg]) ELSE <<>>
       IN IF key \in seen THEN WalkProcessed(Tail(q), seen, graph, processed)
          ELSE WalkProcessed(Tail(q) \o [c \in 1..Len(children) |->
                                           [pkg |-> children[c], root |-> item.root]],
                             seen \cup {key}, graph, Append(processed, key))

NamedPkg(name, deps, opt, peer) ==
  PkgJson(name, Json(Pkg([str |-> TRUE, v |-> name], deps, Undef, opt, peer)))

ChainManifests ==
  {NamedPkg("a", Deps({"b"}), Undef, Undef),
   NamedPkg("b", Undef, Undef, Deps({"a"})),
   NamedPkg("b", Deps({"c"}), Undef, Undef),
   NamedPkg("c", Deps({"c"}), Deps({"a"}), Undef),
   NamedPkg("c", Deps({"d"}), Undef, Undef),
   NamedPkg("d", Deps({"d", "<x>"}), Undef, Undef)}

RECURSIVE ChainsUpTo(_)
ChainsUpTo(n) ==
  IF n = 0 THEN {<<>>}
  ELSE ChainsUpTo(n - 1)
       \cup {Append(s, m) : s \in {x \in ChainsUpTo(n - 1) : Len(x) = n - 1},
                            m \in ChainManifests}

ChainTops ==
  {Json(Pkg([str |-> TRUE, v |-> "app"], deps, dev, Undef, Undef)) :
     deps \in {Undef, Deps({"a"}), Deps({"a", "b"}), Deps({"c", "<x>"})},
     dev \in {Undef, Deps({"d"})}}

InitChain ==
  /\ cfg = PureCfg
  /\ Idle
  /\ pureIn \in [t : {"chain"}, top : ChainTops, isDirectory : BOOLEAN,
                 toScan : ChainsUpTo(MaxChain),
                 packages : {{"a", "b", "c", "d", "<x>", "<unknown>"}}]
  /\ pureOut = Undef

ComputeRootsOfChain ==
  /\ pureIn # Undef /\ pureIn.t = "chain"
  /\ pureOut = Undef
  /\ \E directRoots \in {collectDirectRootsFromPackageJson(pureIn.top)} :
       pureOut' =
         [t |-> "walked",
          out |-> computeRootByPackageFromNodeModules(
                    pureIn.top, pureIn.isDirectory, pureIn.toScan, pureIn.packages),
          processed |->
            IF ~pureIn.isDirectory THEN <<>>
            ELSE WalkProcessed([i \in 1..Len(directRoots) |->
                                  [pkg |-> directRoots[i], root |-> directRoots[i]]],
                               {}, buildGraphFromNodeModules(pureIn.toScan, 1, << >>),
                               <<>>)]
  /\ UNCHANGED pureIn
  /\ UNCHANGED procVars

NextChain == ComputeRootsOfChain

SpecChain == InitChain /\ [][NextChain]_vars

\* what the result should hold for p: the direct roots that reach it,
\* ascending and joined, or null when there is none
RootsOrNull(p) ==
  IF RootsReaching(p) = {} THEN Null ELSE Joined(SortNames(RootsReaching(p)))

\* C26: the resolution terminates on every finite graph, cycles and
\* self-dependencies included; for every queried package that is not a <...>
\* sentinel the result is the duplicate-free ascending |-joined list of
\* exactly the direct roots that reach it through zero or more edges, or
\* null when none does; and a sentinel always maps to null.
C26_RootsExactlyThoseReaching ==
  (pureOut # Undef /\ pureOut.t = "walked")
  => \A p \in pureIn.packages :
       pureOut.out[p] = IF StartsWithLt(p) THEN Null ELSE RootsOrNull(p)

\* C26 amended: each [root, package] pair is processed at most once, and the
\* pairs processed are those of a direct root and a package it reaches; with
\* node_modules a directory, a queried package that is not a sentinel maps
\* to the ascending joined list of exactly the direct roots reaching it, or
\* null, and a sentinel maps to null unless it is itself a direct root,
\* which maps to its own name; without node_modules every queried package
\* maps to null.
C26_RootsReachingWhenInstalled ==
  (pureOut # Undef /\ pureOut.t = "walked")
  => /\ \A i, j \in 1..Len(pureOut.processed) :
          pureOut.processed[i] = pureOut.processed[j] => i = j
     /\ pureIn.isDirectory =>
          /\ SeqRange(pureOut.processed) =
               {<<r, p>> \in ManifestRoots(pureIn.top)
                               \X {"a", "b", "c", "d", "<x>"} :
                  p \in ReachedFrom({r}, InstalledEdges(pureIn.toScan))}
          /\ \A p \in pureIn.packages :
               pureOut.out[p] =
                 IF ~StartsWithLt(p) THEN RootsOrNull(p)
                 ELSE IF p \in ManifestRoots(pureIn.top) THEN Joined(<<p>>)
                 ELSE Null
     /\ ~pureIn.isDirectory => \A p \in pureIn.packages : pureOut.out[p] = Null

\* two direct roots on a circle (a needs b, b has a as a peer): each is
\* reached from both, and the walk ends
C26_CircleResolved ==
  /\ pureOut # Undef /\ pureOut.t = "walked"
  /\ pureIn.isDirectory
  /\ <<"a", "b">> \in InstalledEdges(pureIn.toScan)
  /\ <<"b", "a">> \in InstalledEdges(pureIn.toScan)
  /\ <<"c", "c">> \in InstalledEdges(pureIn.toScan)
  /\ {"a", "b"} \subseteq ManifestRoots(pureIn.top)
  /\ pureOut.out["a"] = Joined(<<"a", "b">>)
  /\ pureOut.out["b"] = Joined(<<"a", "b">>)
  /\ Len(pureOut.processed) = 4

\* ------------------------------------------------------- the counters per package
\* Logs of up to MaxLog lines drawn from records of every category, fs
\* records with read, write, append and unclassified ops and with an op
\* that matches the read and the write pattern at once.
MaxLog == 3

CountLines ==
  {Event(PkgName("a"), "fs", "fs.writeFileSync", "/tmp/k01"),
   Event(PkgName("b"), "fs", "fs.appendFileSync", "/tmp/k01"),
   Event(PkgName("a"), "fs", "fs.readFileSync", "/tmp/k02"),
   Event(PkgName("a"), "fs", "fs.mkdirSync", "/tmp/d"),
   Event(PkgName("b"), "fs", "fs.read.createWriteStream", "/tmp/k03"),
   Event(PkgName("a"), "proc", "child_process.spawnSync", "node -e x"),
   Event([str |-> FALSE, v |-> ""], "dns", "dns.lookup", "example.com"),
   Event(PkgName("b"), "net", "http.get", "registry.npmjs.org"),
   Event(PkgName("a"), "tamper", "tamper", ""),
   Blank, Scalar}

RECURSIVE CountLogsUpTo(_)
CountLogsUpTo(n) ==
  IF n = 0 THEN {<<>>}
  ELSE CountLogsUpTo(n - 1)
       \cup {Append(s, l) : s \in {x \in CountLogsUpTo(n - 1) : Len(x) = n - 1},
                            l \in CountLines}

InitCounts ==
  /\ cfg = PureCfg
  /\ Idle
  /\ pureIn \in CountLogsUpTo(MaxLog)
  /\ pureOut = Undef

SummarizeCounts ==
  /\ pureOut = Undef
  /\ pureOut' = [t |-> "counted", summary |-> summarizeJsonl(pureIn)]
  /\ UNCHANGED pureIn
  /\ UNCHANGED procVars

NextCounts == SummarizeCounts

SpecCounts == InitCounts /\ [][NextCounts]_vars

\* the ops of the model by what the claim calls them
WriteOrAppendOps ==
  {"fs.writeFileSync", "fs.appendFileSync", "fs.createWriteStream",
   "fs.promises.writeFile", "fs.promises.appendFile", "fs.read.createWriteStream"}
ReadOps ==
  {"fs.readFileSync", "fs.readdirSync", "fs.createReadStream",
   "fs.promises.readFile", "fs.read.createWriteStream"}

\* the counter a parsed line should increment, "" for none
CounterOf(l) ==
  IF l.t # "event" THEN ""
  ELSE IF l.category = "fs"
       THEN IF l.op \in WriteOrAppendOps /\ l.op \notin ReadOps
            THEN "fs_write" ELSE "fs_read"
  ELSE IF l.category \in {"proc", "dns", "net"} THEN l.category
  ELSE ""

PkgOfLine(l) == IF l.t = "event" /\ l.pkg.str THEN l.pkg.v ELSE "<unknown>"
Parsed(log) == {i \in 1..Len(log) : log[i].t \notin {"blank", "garbage"}}
Counters == {"fs_read", "fs_write", "proc", "dns", "net"}

\* the sum of the values of a function with a finite domain
RECURSIVE SumFn(_)
SumFn(f) ==
  IF DOMAIN f = {} THEN 0
  ELSE LET x == CHOOSE y \in DOMAIN f : TRUE
       IN f[x] + SumFn([y \in DOMAIN f \ {x} |-> f[y]])

SumOfCounters(s) ==
  SumFn([q \in DOMAIN s.byPackage |->
           SumFn([c \in Counters |-> s.byPackage[q][c]])])

TotalOf(s, c) == SumFn([q \in DOMAIN s.byPackage |-> s.byPackage[q][c]])

WritePathTotal(s) ==
  SumFn([i \in 1..Len(s.topWritePaths) |-> s.topWritePaths[i].count])

CountersAsClaimed(s) ==
  /\ s.totalEvents = Cardinality(Parsed(pureIn))
  /\ DOMAIN s.byPackage = {PkgOfLine(pureIn[i]) : i \in Parsed(pureIn)}
  /\ \A q \in DOMAIN s.byPackage, c \in Counters :
       s.byPackage[q][c] =
         Cardinality({i \in Parsed(pureIn) :
                        PkgOfLine(pureIn[i]) = q /\ CounterOf(pureIn[i]) = c})
  /\ SumOfCounters(s) <= s.totalEvents

BothReadAndWrite(log) ==
  {i \in 1..Len(log) :
     /\ log[i].t = "event" /\ log[i].category = "fs"
     /\ log[i].op \in WriteOrAppendOps \cap ReadOps}

RECURSIVE JsonSizeAtLeast(_)
RECURSIVE SumSizes(_)
SumSizes(vs) ==
  IF vs = <<>> THEN 0 ELSE JsonSizeAtLeast(Head(vs)) + SumSizes(Tail(vs))

JsonSizeAtLeast(v) ==
  IF v.t = "str" THEN v.len + 2
  ELSE IF v.t = "null" THEN 4
  ELSE IF v.t = "num" THEN 1
  ELSE IF v.t = "arr"
  THEN 2 + SumSizes(JsonRoundTrip(v).items) + Max(0, Len(v.items) - 1)
  ELSE IF v.t = "obj"
  THEN LET o == JsonRoundTrip(v)
       IN 2 + SumSizes(o.vals) + SumSeq([i \in 1..Len(o.keys) |-> Len(o.keys[i]) + 3])
          + Max(0, Len(o.keys) - 1)
  ELSE IF v.t = "args"
  THEN LET a == JsonRoundTrip(v)
       IN 2 + SumSizes([i \in 1..Len(a.fields) |-> a.fields[i][2]])
          + 3 * Len(a.fields) + Max(0, Len(a.fields) - 1)
  ELSE 0

LineSizeAtLeast(rec) ==
  JsonSizeAtLeast(rec.args)
    + (IF rec.result = "error" THEN JsonSizeAtLeast(rec.error.message) ELSE 0)

\* the size the design relies on for appends that do not interleave
ATOMIC_APPEND == 4 * 1024

\* argument vectors: short ones, long strings, and lists of long strings
LongWord == Str("payload", 600)
SizeArgs ==
  {Arr(<<Str("x.tmp", 5)>>),
   Arr(<<Str("x.tmp", 5), LongWord>>),
   Arr(<<LongWord, LongWord, LongWord>>),
   Arr(<<Str("sh", 2), Arr(<<Str("-c", 2), LongWord>>)>>),
   Arr(<<Str("sh", 2), Arr([i \in 1..8 |-> LongWord])>>),
   Arr(<<Str("sh", 2), Arr([i \in 1..21 |-> LongWord])>>),
   Arr(<<Str("x.tmp", 5), Obj(<<K_mode, K_token>>, <<LongWord, LongWord>>)>>),
   Arr([i \in 1..9 |-> LongWord])}

InitSize ==
  /\ cfg \in {PureCfg, [PureCfg EXCEPT !.filter = "all"]}
  /\ Idle
  /\ pureIn \in [t : {"sized"}, op : {"fs.writeFileSync", "child_process.spawn"},
                 ctx : Contexts, args : SizeArgs,
                 o : {Returned("v"), Threw(E_orig)}]
  /\ pureOut = Undef

\* one invocation of the wrapper, the log file opening and the write going
\* through
WriteRecord ==
  /\ pureIn # Undef /\ pureIn.t = "sized"
  /\ pureOut = Undef
  /\ \E r \in {wrapSync(EmptySink, [openOk |-> TRUE, writeOk |-> TRUE], cfg,
                        fns, realFs, pureIn.op, pureIn.ctx, pureIn.args,
                        pureIn.o)} :
       pureOut' = [t |-> "lines", log |-> r.S.log]
  /\ UNCHANGED pureIn
  /\ UNCHANGED procVars

NextSize == WriteRecord

SpecSize == InitSize /\ [][NextSize]_vars

\* C28: every record is appended as one line by one write, and the line is
\* shorter than the 4 KiB the design relies on for appends of several
\* processes to one log path.
C28_OneLineUnder4KiB ==
  (pureOut # Undef /\ pureOut.t = "lines")
  => /\ Len(pureOut.log) <= 1
     /\ \A i \in 1..Len(pureOut.log) :
          LineSizeAtLeast(pureOut.log[i]) < ATOMIC_APPEND

\* the half of the claim about the single write
C28_OneLinePerRecord ==
  (pureOut # Undef /\ pureOut.t = "lines") => Len(pureOut.log) <= 1

\* ------------------------------------------------------- the Module._load hook
\* The loader of one process. Its state is pureOut = [t |-> "loader", store,
\* frames, tasks, obs]: the store of the AsyncLocalStorage on the running
\* stack, the loads in progress (outermost first), the asynchronous
\* continuations created and not yet run, each with the store it captured,
\* and the latest observation. AsyncLocalStorage.run(store, fn) sets the
\* store while fn runs and puts the former one back when fn returns or
\* throws; a continuation created under a store runs under it.
MaxDepth == 3
MaxTasks == 1

\* what Module._resolveFilename says of a request: it throws, or gives a
\* path; inside names the package whose directory holds that path
Resolutions ==
  {[resolves |-> FALSE, path |-> <<>>, inside |-> NoPkg],
   [resolves |-> TRUE, path |-> F_a.path, inside |-> <<"a">>],
   [resolves |-> TRUE,
    path |-> <<"/", "p", "/", "node_modules", "/", "a", "/", "node_modules", "/",
               "b", "/", "i.js">>,
    inside |-> <<"b">>],
   [resolves |-> TRUE, path |-> F_npmcli.path, inside |-> PM_NPM],
   [resolves |-> TRUE, path |-> <<"/", "p", "/", "src", "/", "x.js">>,
    inside |-> NoPkg]}

\* the store under which the hook runs the real loader
moduleLoadStore_KeepsOuter(resolution, store) ==
  IF ~resolution.resolves \/ store.t = "str" THEN store
  ELSE LET pkgNameRaw == packageNameFromFilePath(resolution.path)
       IN IF pkgNameRaw = NoPkg THEN store
          ELSE StoreOf(classifyPackageDisplayName(pkgNameRaw))

moduleLoadStore(resolution, store) ==
  IF ~resolution.resolves THEN store
  ELSE LET pkgNameRaw == packageNameFromFilePath(resolution.path)
       IN IF pkgNameRaw = NoPkg THEN store
          ELSE StoreOf(classifyPackageDisplayName(pkgNameRaw))

\* whether the hook goes through pkgAls.run
runsUnderStore(resolution) ==
  resolution.resolves /\ packageNameFromFilePath(resolution.path) # NoPkg

NoObs == [kind |-> "none"]

InitLoader ==
  /\ cfg = PureCfg
  /\ Idle
  /\ pureIn = [t |-> "loader"]
  /\ pureOut = [t |-> "loader", store |-> NoStore, frames |-> <<>>,
                tasks |-> {}, obs |-> NoObs]

IsLoader == pureOut # Undef /\ pureOut.t = "loader"

\* the package of the innermost load in progress that lies inside one
RECURSIVE InnermostInside(_)
InnermostInside(frames) ==
  IF frames = <<>> THEN NoPkg
  ELSE IF frames[Len(frames)].inside # NoPkg THEN frames[Len(frames)].inside
  ELSE InnermostInside(SubSeq(frames, 1, Len(frames) - 1))

\* require(request): the hook is entered
LoadBegin(resolution) ==
  /\ IsLoader
  /\ Len(pureOut.frames) < MaxDepth
  /\ pureOut' = [pureOut EXCEPT
                   !.frames = Append(@, [saved |-> pureOut.store,
                                         run |-> runsUnderStore(resolution),
                                         inside |-> resolution.inside]),
                   !.store = moduleLoadStore(resolution, pureOut.store),
                   !.obs = NoObs]
  /\ UNCHANGED pureIn
  /\ UNCHANGED procVars

\* the real loader returns or throws, and with it the hook: pkgAls.run puts
\* the former store back, the plain path leaves the store alone
LoadEnd(threw) ==
  /\ IsLoader
  /\ pureOut.frames # <<>>
  /\ LET frame == pureOut.frames[Len(pureOut.frames)]
     IN pureOut' = [pureOut EXCEPT
                      !.frames = SubSeq(@, 1, Len(@) - 1),
                      !.store = IF frame.run THEN frame.saved ELSE @,
                      !.obs = [kind |-> "end", threw |-> threw,
                               before |-> frame.saved,
                               after |-> IF frame.run THEN frame.saved
                                         ELSE pureOut.store]]
  /\ UNCHANGED pureIn
  /\ UNCHANGED procVars

\* the code being loaded (or the main program) calls a wrapper
CallNow(stack) ==
  /\ IsLoader
  /\ pureOut' = [pureOut EXCEPT
                   !.obs = [kind |-> "call",
                            pkg |-> currentPkgAndMaybeStack(pureOut.store, stack).pkg,
                            inside |-> InnermostInside(pureOut.frames)]]
  /\ UNCHANGED pureIn
  /\ UNCHANGED procVars

\* it starts asynchronous work: the continuation captures the store
Defer ==
  /\ IsLoader
  /\ Cardinality(pureOut.tasks) < MaxTasks
  /\ pureOut' = [pureOut EXCEPT
                   !.tasks = @ \cup {[store |-> pureOut.store,
                                      inside |-> InnermostInside(pureOut.frames)]},
                   !.obs = NoObs]
  /\ UNCHANGED pureIn
  /\ UNCHANGED procVars

\* the event loop runs a continuation, which calls a wrapper; no load is in
\* progress then
RunTask(task, stack) ==
  /\ IsLoader
  /\ pureOut.frames = <<>>
  /\ task \in pureOut.tasks
  /\ pureOut' = [pureOut EXCEPT
                   !.tasks = @ \ {task},
                   !.obs = [kind |-> "async",
                            pkg |-> currentPkgAndMaybeStack(task.store, stack).pkg,
                            inside |-> task.inside]]
  /\ UNCHANGED pureIn
  /\ UNCHANGED procVars

NextLoader ==
  \/ \E resolution \in Resolutions : LoadBegin(resolution)
  \/ \E threw \in BOOLEAN : LoadEnd(threw)
  \/ \E stack \in {UserStack, PmStack} : CallNow(stack)
  \/ Defer
  \/ \E task \in [store : {NoStore} \cup {StoreOf(p) : p \in {<<"a">>, <<"b">>, PM_NPM}},
                  inside : {NoPkg, <<"a">>, <<"b">>, PM_NPM}],
        stack \in {UserStack, PmStack} : RunTask(task, stack)

SpecLoader == InitLoader /\ [][NextLoader]_vars

\* C29: while a module whose file lies inside package P is being loaded the
\* scope is P: a call made then, and a continuation started then, is
\* attributed to P; a nested load of a module of Q runs under Q; when a load
\* returns or throws the scope is what it was before the load began; and a
\* load whose request does not resolve, or resolves outside every package,
\* leaves the scope as it is.
C29_ScopeFollowsLoads ==
  IsLoader =>
    /\ pureOut.store = IF InnermostInside(pureOut.frames) = NoPkg THEN NoStore
                       ELSE StoreOf(InnermostInside(pureOut.frames))
    /\ \A i \in 1..Len(pureOut.frames) :
         LET outer == SubSeq(pureOut.frames, 1, i - 1)
         IN pureOut.frames[i].saved =
              IF InnermostInside(outer) = NoPkg THEN NoStore
              ELSE StoreOf(InnermostInside(outer))
    /\ pureOut.obs.kind \in {"call", "async"} /\ pureOut.obs.inside # NoPkg
         => pureOut.obs.pkg = pureOut.obs.inside
    /\ pureOut.obs.kind = "end" => pureOut.obs.after = pureOut.obs.before

\* package a is being loaded, a module of b nested in it, and under that a
\* project file: a call made now goes to b
C29_NestedLoadUnderInner ==
  /\ IsLoader
  /\ Len(pureOut.frames) = 3
  /\ pureOut.frames[1].inside = <<"a">>
  /\ pureOut.frames[2].inside = <<"b">>
  /\ pureOut.frames[3].inside = NoPkg
  /\ pureOut.obs.kind = "call"
  /\ pureOut.obs.pkg = <<"b">>

\* ------------------------------------------- the root computation in the container
\* The node script that computeRootsInSandbox runs against the work volume,
\* on the inputs of computeRootByPackageFromNodeModules. Its listing of the
\* manifests and its graph loop read as those of the host side (a path that
\* is no file fails in safeReadJson), so toScan and buildGraphFromNodeModules
\* stand for both; a node_modules that cannot be read lists nothing.

\* Array.prototype.sort() without a comparator: by UTF-16 code units
CodeUnitOrder == <<" ", "<unknown>", "<x>", "B", "a", "b", "c", "d">>
CodeUnitRank(n) == CHOOSE i \in 1..Len(CodeUnitOrder) : CodeUnitOrder[i] = n

RECURSIVE SortCodeUnits(_)
SortCodeUnits(S) ==
  IF S = {} THEN <<>>
  ELSE LET n == CHOOSE x \in S : \A y \in S : CodeUnitRank(x) <= CodeUnitRank(y)
       IN <<n>> \o SortCodeUnits(S \ {n})

\* const direct = new Set(): every key of the four fields
scriptDirect(file) ==
  LET pkgJson == safeReadJson(file)
  IN IF Falsy(pkgJson) \/ pkgJson.t # "pkg" THEN {}
     ELSE KeysOfField(pkgJson.dependencies)
            \cup KeysOfField(pkgJson.devDependencies)
            \cup KeysOfField(pkgJson.optionalDependencies)
            \cup KeysOfField(pkgJson.peerDependencies)

\* the script with the early return of the host side
rootsInSandboxScript_EarlyReturn(top, nodeModulesIsDirectory, toScan, packages) ==
  LET direct == scriptDirect(top)
      graph == buildGraphFromNodeModules(toScan, 1, << >>)
      order == SortCodeUnits(direct)
      rootsFor == Walk([i \in 1..Len(order) |-> [pkg |-> order[i], root |-> order[i]]],
                       {}, << >>, graph)
      out == [p \in packages |->
                IF StartsWithLt(p) THEN Null
                ELSE IF p \notin DOMAIN rootsFor THEN Null
                ELSE Joined(SortCodeUnits(rootsFor[p]))]
  IN IF ~nodeModulesIsDirectory THEN [p \in packages |-> Null]
     ELSE [p \in packages |->
             IF p \in direct /\ out[p] = Null THEN Joined(<<p>>) ELSE out[p]]

\* the content of /out/roots.json
rootsInSandboxScript(top, nodeModulesIsDirectory, toScan, packages) ==
  LET direct == scriptDirect(top)
      graph == IF nodeModulesIsDirectory
               THEN buildGraphFromNodeModules(toScan, 1, << >>) ELSE << >>
      order == SortCodeUnits(direct)
      rootsFor == Walk([i \in 1..Len(order) |-> [pkg |-> order[i], root |-> order[i]]],
                       {}, << >>, graph)
      out == [p \in packages |->
                IF StartsWithLt(p) THEN Null
                ELSE IF p \notin DOMAIN rootsFor THEN Null
                ELSE Joined(SortCodeUnits(rootsFor[p]))]
  IN [p \in packages |->
        IF p \in direct /\ out[p] = Null THEN Joined(<<p>>) ELSE out[p]]

BothTops ==
  {NoFile, Json(Null)}
    \cup {Json(Pkg([str |-> TRUE, v |-> "app"], deps, dev, Undef, Undef)) :
            deps \in {Undef, Deps({"a"}), Deps({"a", "B"}), Deps({" ", "<x>"})},
            dev \in {Undef, Deps({"b"})}}

BothManifests ==
  {NamedPkg("a", Deps({"c"}), Undef, Undef),
   NamedPkg("B", Deps({"c"}), Undef, Undef),
   NamedPkg("b", Undef, Undef, Deps({"a"})),
   NamedPkg("c", Deps({"c"}), Undef, Undef),
   PkgJson("c", BadJson),
   PkgJson("a", NoFile)}

BothTrees == UNION {[1..n -> BothManifests] : n \in 0..MaxInstalled}

InitBoth ==
  /\ cfg = PureCfg
  /\ Idle
  /\ pureIn \in [t : {"both"}, top : BothTops, isDirectory : BOOLEAN,
                 toScan : BothTrees,
                 packages : {{"a", "b", "B", "c", " ", "<x>"}}]
  /\ pureOut = Undef

\* the host-side computation and the script on the same tree
ComputeBoth ==
  /\ pureIn # Undef /\ pureIn.t = "both"
  /\ pureOut = Undef
  /\ pureOut' =
       [t |-> "both",
        host |-> computeRootByPackageFromNodeModules(
                   pureIn.top, pureIn.isDirectory, pureIn.toScan, pureIn.packages),
        script |-> rootsInSandboxScript(
                     pureIn.top, pureIn.isDirectory, pureIn.toScan, pureIn.packages)]
  /\ UNCHANGED pureIn
  /\ UNCHANGED procVars

NextBoth == ComputeBoth

SpecBoth == InitBoth /\ [][NextBoth]_vars

IsBoth == pureOut # Undef /\ pureOut.t = "both"

RootSet(v) == IF v = Null THEN {} ELSE SeqRange(v.v)

====
